---------------------------- MODULE Spec2Model ----------------------------
(***************************************************************************)
(* A model of ckbfs-server: the HTTP facade over the CKBFS resolver.       *)
(*                                                                         *)
(* JavaScript strings whose characters the code inspects (URIs) are        *)
(* sequences of one-character strings.  JavaScript objects are records;    *)
(* an optional property that is not set is a field that is not in the      *)
(* record's DOMAIN.                                                        *)
(***************************************************************************)
EXTENDS Integers, Sequences, FiniteSets, TLC

VARIABLES
    req,        \* the HTTP request being served (raw query / body)
    pc,         \* where the request's handler is
    fetches,    \* the per-identifier fetches of the request (getFileContent / getRawFileContent calls)
    res,        \* the sequence of HTTP responses sent for the request
    arg,        \* input of the function applied (function-level specifications)
    out         \* its result; for GET /ckbfs/health, the settlements of the two probes

vars == <<req, pc, fetches, res, arg, out>>

(***************************************************************************)
(* Characters and strings                                                  *)
(***************************************************************************)
Digits == {"0", "1", "2", "3", "4", "5", "6", "7", "8", "9"}

\* the character class [a-fA-F0-9]
HexChars == Digits \cup {"a", "b", "c", "d", "e", "f", "A", "B", "C", "D", "E", "F"}

\* s repeated: n copies of the character c
Rep(c, n) == [i \in 1..n |-> c]

StartsWith(s, p) == Len(s) >= Len(p) /\ SubSeq(s, 1, Len(p)) = p

\* every character of s at positions from..to is in class
AllIn(s, from, to, class) == \A i \in from..to : s[i] \in class

(***************************************************************************)
(* String literals of the source, as character sequences                   *)
(***************************************************************************)
\* "Operation timeout"
S_OperationTimeout ==
    <<"O", "p", "e", "r", "a", "t", "i", "o", "n", " ", "t", "i", "m", "e", "o", "u", "t">>

\* "Invalid CKBFS URI format: "
S_InvalidUriFormat ==
    <<"I", "n", "v", "a", "l", "i", "d", " ", "C", "K", "B", "F", "S", " ", "U", "R", "I", " ",
      "f", "o", "r", "m", "a", "t", ":", " ">>

\* ""value" does not match any of the allowed types"
S_JoiNoMatch ==
    <<"\"", "v", "a", "l", "u", "e", "\"", " ", "d", "o", "e", "s", " ", "n", "o", "t", " ", "m",
      "a", "t", "c", "h", " ", "a", "n", "y", " ", "o", "f", " ", "t", "h", "e", " ", "a", "l",
      "l", "o", "w", "e", "d", " ", "t", "y", "p", "e", "s">>

\* "File not found for URI: "
S_FileNotFoundFor ==
    <<"F", "i", "l", "e", " ", "n", "o", "t", " ", "f", "o", "u", "n", "d", " ", "f", "o", "r",
      " ", "U", "R", "I", ":", " ">>

\* "No data found on "
S_NoDataFoundOn ==
    <<"N", "o", " ", "d", "a", "t", "a", " ", "f", "o", "u", "n", "d", " ", "o", "n", " ">>

\* "File content not found for URI: "
S_FileContentNotFoundFor ==
    <<"F", "i", "l", "e", " ", "c", "o", "n", "t", "e", "n", "t", " ", "n", "o", "t", " ", "f",
      "o", "u", "n", "d", " ", "f", "o", "r", " ", "U", "R", "I", ":", " ">>

\* "No content data found on "
S_NoContentDataFoundOn ==
    <<"N", "o", " ", "c", "o", "n", "t", "e", "n", "t", " ", "d", "a", "t", "a", " ", "f", "o",
      "u", "n", "d", " ", "o", "n", " ">>

\* " network"
S_NetworkSuffix ==
    <<" ", "n", "e", "t", "w", "o", "r", "k">>

\* "Network error while retrieving file: "
S_NetworkErrorFor ==
    <<"N", "e", "t", "w", "o", "r", "k", " ", "e", "r", "r", "o", "r", " ", "w", "h", "i", "l",
      "e", " ", "r", "e", "t", "r", "i", "e", "v", "i", "n", "g", " ", "f", "i", "l", "e", ":",
      " ">>

\* "Failed to decode CKBFS data for URI: "
S_DecodeErrorFor ==
    <<"F", "a", "i", "l", "e", "d", " ", "t", "o", " ", "d", "e", "c", "o", "d", "e", " ", "C",
      "K", "B", "F", "S", " ", "d", "a", "t", "a", " ", "f", "o", "r", " ", "U", "R", "I", ":",
      " ">>

\* "Blockchain error while retrieving file: "
S_BlockchainErrorFor ==
    <<"B", "l", "o", "c", "k", "c", "h", "a", "i", "n", " ", "e", "r", "r", "o", "r", " ", "w",
      "h", "i", "l", "e", " ", "r", "e", "t", "r", "i", "e", "v", "i", "n", "g", " ", "f", "i",
      "l", "e", ":", " ">>

\* "An internal server error occurred"
S_InternalError ==
    <<"A", "n", " ", "i", "n", "t", "e", "r", "n", "a", "l", " ", "s", "e", "r", "v", "e", "r",
      " ", "e", "r", "r", "o", "r", " ", "o", "c", "c", "u", "r", "r", "e", "d">>

\* "not found"
S_not_found ==
    <<"n", "o", "t", " ", "f", "o", "u", "n", "d">>

\* "network"
S_network ==
    <<"n", "e", "t", "w", "o", "r", "k">>

\* "timeout"
S_timeout ==
    <<"t", "i", "m", "e", "o", "u", "t">>

\* "decode"
S_decode ==
    <<"d", "e", "c", "o", "d", "e">>

\* "parse"
S_parse ==
    <<"p", "a", "r", "s", "e">>

\* "mainnet"
S_mainnet ==
    <<"m", "a", "i", "n", "n", "e", "t">>

\* "testnet"
S_testnet ==
    <<"t", "e", "s", "t", "n", "e", "t">>

\* "Query parameter validation failed"
S_QueryValidationFailed ==
    <<"Q", "u", "e", "r", "y", " ", "p", "a", "r", "a", "m", "e", "t", "e", "r", " ", "v", "a",
      "l", "i", "d", "a", "t", "i", "o", "n", " ", "f", "a", "i", "l", "e", "d">>

\* "Request body validation failed"
S_BodyValidationFailed ==
    <<"R", "e", "q", "u", "e", "s", "t", " ", "b", "o", "d", "y", " ", "v", "a", "l", "i", "d",
      "a", "t", "i", "o", "n", " ", "f", "a", "i", "l", "e", "d">>

\* "Raw format is not supported for batch requests"
S_RawNotSupported ==
    <<"R", "a", "w", " ", "f", "o", "r", "m", "a", "t", " ", "i", "s", " ", "n", "o", "t", " ",
      "s", "u", "p", "p", "o", "r", "t", "e", "d", " ", "f", "o", "r", " ", "b", "a", "t", "c",
      "h", " ", "r", "e", "q", "u", "e", "s", "t", "s">>

\* "Use JSON format for batch requests or make individual requests for raw format"
S_UseJsonFormat ==
    <<"U", "s", "e", " ", "J", "S", "O", "N", " ", "f", "o", "r", "m", "a", "t", " ", "f", "o",
      "r", " ", "b", "a", "t", "c", "h", " ", "r", "e", "q", "u", "e", "s", "t", "s", " ", "o",
      "r", " ", "m", "a", "k", "e", " ", "i", "n", "d", "i", "v", "i", "d", "u", "a", "l", " ",
      "r", "e", "q", "u", "e", "s", "t", "s", " ", "f", "o", "r", " ", "r", "a", "w", " ", "f",
      "o", "r", "m", "a", "t">>

\* "Invalid network: "
S_InvalidNetwork ==
    <<"I", "n", "v", "a", "l", "i", "d", " ", "n", "e", "t", "w", "o", "r", "k", ":", " ">>

\* ". Must be 'mainnet' or 'testnet'"
S_MustBeNetwork ==
    <<".", " ", "M", "u", "s", "t", " ", "b", "e", " ", "'", "m", "a", "i", "n", "n", "e", "t",
      "'", " ", "o", "r", " ", "'", "t", "e", "s", "t", "n", "e", "t", "'">>

\* ""value" must be one of [mainnet, testnet]"
S_JoiNetworkOnly ==
    <<"\"", "v", "a", "l", "u", "e", "\"", " ", "m", "u", "s", "t", " ", "b", "e", " ", "o", "n",
      "e", " ", "o", "f", " ", "[", "m", "a", "i", "n", "n", "e", "t", ",", " ", "t", "e", "s",
      "t", "n", "e", "t", "]">>

\* "devnet"
S_devnet ==
    <<"d", "e", "v", "n", "e", "t">>

\* "Unknown error"
S_UnknownError ==
    <<"U", "n", "k", "n", "o", "w", "n", " ", "e", "r", "r", "o", "r">>

\* the length of the hash in every accepted form: {64}
HashLen == 64

CkbfsScheme == <<"c", "k", "b", "f", "s", ":", "/", "/">>
HexPrefix == <<"0", "x">>

(***************************************************************************)
(* The four patterns of CKBFSService.uriSchema.  A JavaScript regular      *)
(* expression without flags: ^ and $ match only at the two ends of the     *)
(* input, \d is [0-9].                                                     *)
(***************************************************************************)
\* /^ckbfs:\/\/[a-fA-F0-9]{64}i\d+$/
MatchOutPointUri(s) ==
    /\ StartsWith(s, CkbfsScheme)
    /\ Len(s) >= Len(CkbfsScheme) + HashLen + 2
    /\ AllIn(s, Len(CkbfsScheme) + 1, Len(CkbfsScheme) + HashLen, HexChars)
    /\ s[Len(CkbfsScheme) + HashLen + 1] = "i"
    /\ AllIn(s, Len(CkbfsScheme) + HashLen + 2, Len(s), Digits)

\* /^ckbfs:\/\/[a-fA-F0-9]{64}$/
MatchTypeIdUri(s) ==
    /\ StartsWith(s, CkbfsScheme)
    /\ Len(s) = Len(CkbfsScheme) + HashLen
    /\ AllIn(s, Len(CkbfsScheme) + 1, Len(s), HexChars)

\* /^0x[a-fA-F0-9]{64}$/
MatchHexTypeId(s) ==
    /\ StartsWith(s, HexPrefix)
    /\ Len(s) = Len(HexPrefix) + HashLen
    /\ AllIn(s, Len(HexPrefix) + 1, Len(s), HexChars)

\* /^[a-fA-F0-9]{64}$/
MatchBareTypeId(s) ==
    /\ Len(s) = HashLen
    /\ AllIn(s, 1, Len(s), HexChars)

\* a mutant of uriSchema: the patterns without the closing $ anchor
uriSchema_unanchored(s) ==
    \/ /\ StartsWith(s, CkbfsScheme)
       /\ Len(s) >= Len(CkbfsScheme) + HashLen
       /\ AllIn(s, Len(CkbfsScheme) + 1, Len(CkbfsScheme) + HashLen, HexChars)
    \/ /\ StartsWith(s, HexPrefix)
       /\ Len(s) >= Len(HexPrefix) + HashLen
       /\ AllIn(s, Len(HexPrefix) + 1, Len(HexPrefix) + HashLen, HexChars)
    \/ /\ Len(s) >= HashLen
       /\ AllIn(s, 1, HashLen, HexChars)

\* Joi.alternatives().try(...): the value is valid iff one alternative matches
uriSchema(s) ==
    \/ MatchOutPointUri(s)
    \/ MatchTypeIdUri(s)
    \/ MatchHexTypeId(s)
    \/ MatchBareTypeId(s)

(***************************************************************************)
(* Errors                                                                  *)
(***************************************************************************)
\* new Error(message)
PlainError(message) == [name |-> "Error", message |-> message]

\* new CKBFSError(code, message, details): details is stored only when truthy.
\* NoDetails stands for an undefined or empty details argument.
NoDetails == <<>>

CKBFSError(code, message, details) ==
    IF details # NoDetails
    THEN [name |-> "CKBFSError", code |-> code, message |-> message, details |-> details]
    ELSE [name |-> "CKBFSError", code |-> code, message |-> message]

\* error instanceof CKBFSError
IsCKBFSError(e) == e.name = "CKBFSError"

(***************************************************************************)
(* parseIdentifier of the SDK (@ckbfs/api), which is not part of the       *)
(* repository: modelled from the identifier forms of the specification     *)
(* (section 4.2) and the expectations of tests/basic.test.ts.              *)
(***************************************************************************)
RECURSIVE DecimalValue(_)
DecimalValue(ds) ==
    IF ds = <<>> THEN 0
    ELSE LET d == ds[Len(ds)]
             v == CHOOSE n \in 0..9 : <<"0", "1", "2", "3", "4", "5", "6", "7", "8", "9">>[n + 1] = d
         IN  10 * DecimalValue(SubSeq(ds, 1, Len(ds) - 1)) + v

parseIdentifier(s) ==
    IF MatchOutPointUri(s)
    THEN [type |-> "outPoint",
          txHash |-> HexPrefix \o SubSeq(s, Len(CkbfsScheme) + 1, Len(CkbfsScheme) + HashLen),
          index |-> DecimalValue(SubSeq(s, Len(CkbfsScheme) + HashLen + 2, Len(s)))]
    ELSE IF MatchTypeIdUri(s)
    THEN [type |-> "typeId", typeId |-> HexPrefix \o SubSeq(s, Len(CkbfsScheme) + 1, Len(s))]
    ELSE IF MatchHexTypeId(s)
    THEN [type |-> "typeId", typeId |-> s]
    ELSE IF MatchBareTypeId(s)
    THEN [type |-> "typeId", typeId |-> HexPrefix \o s]
    ELSE [type |-> "unknown"]

(***************************************************************************)
(* CKBFSService.parseURI: the result is [ok |-> TRUE, value |-> parsed]    *)
(* or [ok |-> FALSE, error |-> the CKBFSError thrown].                     *)
(***************************************************************************)
\* a mutant of parseURI: the index is copied when it is truthy, so an index
\* of 0 is left out
parseURI_indexTruthy(uri) ==
    IF ~uriSchema(uri)
    THEN [ok |-> FALSE,
          error |-> CKBFSError("INVALID_URI", S_InvalidUriFormat \o uri, S_JoiNoMatch)]
    ELSE LET parsed == parseIdentifier(uri)
         IN  [ok |-> TRUE,
              value |->
                IF parsed.type = "outPoint" /\ parsed.index # 0
                THEN [type |-> parsed.type, raw |-> uri, txHash |-> parsed.txHash,
                      index |-> parsed.index]
                ELSE IF parsed.type = "outPoint"
                THEN [type |-> parsed.type, raw |-> uri, txHash |-> parsed.txHash]
                ELSE [type |-> parsed.type, raw |-> uri, typeId |-> parsed.typeId]]

parseURI(uri) ==
    IF ~uriSchema(uri)
    THEN [ok |-> FALSE,
          error |-> CKBFSError("INVALID_URI", S_InvalidUriFormat \o uri, S_JoiNoMatch)]
    ELSE LET parsed == parseIdentifier(uri)
             base == [type |-> parsed.type, raw |-> uri]
         IN  [ok |-> TRUE,
              value |->
                IF parsed.type = "outPoint"
                THEN [type |-> parsed.type, raw |-> uri, txHash |-> parsed.txHash, index |-> parsed.index]
                ELSE IF parsed.type = "typeId"
                THEN [type |-> parsed.type, raw |-> uri, typeId |-> parsed.typeId]
                ELSE base]


(***************************************************************************)
(* Error codes, HTTP statuses and the error handlers of the boundary       *)
(***************************************************************************)
\* enum ErrorCode
ErrorCode ==
    { "INVALID_URI", "INVALID_NETWORK", "INVALID_FORMAT", "MISSING_REQUIRED_FIELD",
      "FILE_NOT_FOUND", "CKBFS_DECODE_ERROR", "NETWORK_ERROR", "BLOCKCHAIN_ERROR",
      "INTERNAL_SERVER_ERROR", "SERVICE_UNAVAILABLE", "TIMEOUT_ERROR",
      "RATE_LIMIT_EXCEEDED", "UNAUTHORIZED", "FORBIDDEN" }

\* enum HttpStatus (the members the handlers use)
HttpStatus ==
    [ OK |-> 200, BAD_REQUEST |-> 400, NOT_FOUND |-> 404, INTERNAL_SERVER_ERROR |-> 500,
      BAD_GATEWAY |-> 502, SERVICE_UNAVAILABLE |-> 503, GATEWAY_TIMEOUT |-> 504 ]

\* the x-request-id header set by the request-id middleware, and the
\* timestamp new Date().toISOString() of a response
RequestId == "req_1"
Timestamp == "timestamp"

\* a mutant of StatusOfCode: the NOT_FOUND and BAD_GATEWAY cases are missing
StatusOfCode_defaultOnly(code) ==
    CASE code \in {"INVALID_URI", "INVALID_NETWORK", "INVALID_FORMAT"} -> HttpStatus.BAD_REQUEST
      [] code = "SERVICE_UNAVAILABLE" -> HttpStatus.SERVICE_UNAVAILABLE
      [] OTHER -> HttpStatus.INTERNAL_SERVER_ERROR

\* the switch (error.code) of handleCKBFSError
StatusOfCode(code) ==
    CASE code \in {"INVALID_URI", "INVALID_NETWORK", "INVALID_FORMAT"} -> HttpStatus.BAD_REQUEST
      [] code = "FILE_NOT_FOUND" -> HttpStatus.NOT_FOUND
      [] code \in {"NETWORK_ERROR", "TIMEOUT_ERROR"} -> HttpStatus.BAD_GATEWAY
      [] code = "SERVICE_UNAVAILABLE" -> HttpStatus.SERVICE_UNAVAILABLE
      [] OTHER -> HttpStatus.INTERNAL_SERVER_ERROR

\* { code, message, ...(details && { details }) }
ErrorResponse(code, message, details) ==
    IF details # NoDetails
    THEN [code |-> code, message |-> message, details |-> details]
    ELSE [code |-> code, message |-> message]

\* a mutant of ErrorEnvelope: the error object is sent as the body itself
ErrorEnvelope_bare(status, errorResponse) ==
    [status |-> status, type |-> "json", body |-> errorResponse]

\* res.status(statusCode).json({ success: false, error, timestamp, requestId })
ErrorEnvelope(status, errorResponse) ==
    [ status |-> status, type |-> "json",
      body |-> [success |-> FALSE, error |-> errorResponse,
                timestamp |-> Timestamp, requestId |-> RequestId] ]

\* res.status(200).json({ success: true, data, timestamp, requestId })
SuccessEnvelope(status, data) ==
    [ status |-> status, type |-> "json",
      body |-> [success |-> TRUE, data |-> data,
                timestamp |-> Timestamp, requestId |-> RequestId] ]

DetailsOf(e) == IF "details" \in DOMAIN e THEN e.details ELSE NoDetails

\* CKBFSController.handleCKBFSError, the branch taken for a CKBFSError
handleCKBFSError(error) ==
    ErrorEnvelope(StatusOfCode(error.code),
                  ErrorResponse(error.code, error.message, DetailsOf(error)))

\* the global error handler of Server.initializeErrorHandling (the stack
\* property added in debug mode is left out)
globalErrorHandler(error) ==
    IF error.name = "ValidationError"
    THEN ErrorEnvelope(HttpStatus.BAD_REQUEST,
                       ErrorResponse("VALIDATION_ERROR", error.message, NoDetails))
    ELSE ErrorEnvelope(HttpStatus.INTERNAL_SERVER_ERROR,
                       ErrorResponse("INTERNAL_SERVER_ERROR",
                                     S_InternalError, NoDetails))

\* next(error) in a controller: the router's handleCKBFSError answers a
\* CKBFSError and passes any other error on; the "*" 404 handler is not an
\* error handler and is skipped; the global error handler answers the rest.
RouteError(error) ==
    IF IsCKBFSError(error) THEN handleCKBFSError(error) ELSE globalErrorHandler(error)

(***************************************************************************)
(* utils/contentType.ts: the text/binary classifier and the conversion of  *)
(* content to a string.  A content string is a sequence of UTF-16 code     *)
(* units (integers); a byte buffer is a sequence of integers 0..255.       *)
(***************************************************************************)
\* "text/"
S_text_slash ==
    <<"t", "e", "x", "t", "/">>

\* "+xml"
S_plus_xml ==
    <<"+", "x", "m", "l">>

\* "+json"
S_plus_json ==
    <<"+", "j", "s", "o", "n">>

\* "+yaml"
S_plus_yaml ==
    <<"+", "y", "a", "m", "l">>

\* "+toml"
S_plus_toml ==
    <<"+", "t", "o", "m", "l">>

\* "application/octet-stream"
S_application_octet_stream ==
    <<"a", "p", "p", "l", "i", "c", "a", "t", "i", "o", "n", "/", "o", "c", "t", "e", "t", "-",
      "s", "t", "r", "e", "a", "m">>

\* "binary/octet-stream"
S_binary_octet_stream ==
    <<"b", "i", "n", "a", "r", "y", "/", "o", "c", "t", "e", "t", "-", "s", "t", "r", "e", "a",
      "m">>

\* "application/unknown"
S_application_unknown ==
    <<"a", "p", "p", "l", "i", "c", "a", "t", "i", "o", "n", "/", "u", "n", "k", "n", "o", "w",
      "n">>

\* "text/plain"
S_text_plain ==
    <<"t", "e", "x", "t", "/", "p", "l", "a", "i", "n">>

\* "image/png"
S_image_png ==
    <<"i", "m", "a", "g", "e", "/", "p", "n", "g">>

\* "hello.txt"
S_hello_txt ==
    <<"h", "e", "l", "l", "o", ".", "t", "x", "t">>

\* "image.png"
S_image_png_name ==
    <<"i", "m", "a", "g", "e", ".", "p", "n", "g">>

\* "data.bin"
S_data_bin ==
    <<"d", "a", "t", "a", ".", "b", "i", "n">>

\* "empty.txt"
S_empty_txt ==
    <<"e", "m", "p", "t", "y", ".", "t", "x", "t">>

\* "nocontent.txt"
S_nocontent_txt ==
    <<"n", "o", "c", "o", "n", "t", "e", "n", "t", ".", "t", "x", "t">>

\* "文件.txt"
S_unicode_txt ==
    <<"文", "件", ".", "t", "x", "t">>

\* "inline; filename=""
S_InlineFilename ==
    <<"i", "n", "l", "i", "n", "e", ";", " ", "f", "i", "l", "e", "n", "a", "m", "e", "=", "\"">>

\* "Invalid character in header content ["Content-Disposition"]"
S_InvalidHeaderChar ==
    <<"I", "n", "v", "a", "l", "i", "d", " ", "c", "h", "a", "r", "a", "c", "t", "e", "r", " ",
      "i", "n", " ", "h", "e", "a", "d", "e", "r", " ", "c", "o", "n", "t", "e", "n", "t", " ",
      "[", "\"", "C", "o", "n", "t", "e", "n", "t", "-", "D", "i", "s", "p", "o", "s", "i", "t",
      "i", "o", "n", "\"", "]">>

\* "ckbfs"
S_ckbfs ==
    <<"c", "k", "b", "f", "s">>

\* "20241025.db973a8e8032"
S_ProtocolVersion ==
    <<"2", "0", "2", "4", "1", "0", "2", "5", ".", "d", "b", "9", "7", "3", "a", "8", "e", "8",
      "0", "3", "2">>

\* "Cell not found"
S_CellNotFound ==
    <<"C", "e", "l", "l", " ", "n", "o", "t", " ", "f", "o", "u", "n", "d">>

\* "network request failed"
S_NetworkRequestFailed ==
    <<"n", "e", "t", "w", "o", "r", "k", " ", "r", "e", "q", "u", "e", "s", "t", " ", "f", "a",
      "i", "l", "e", "d">>

\* "Failed to decode witness data"
S_FailedToDecode ==
    <<"F", "a", "i", "l", "e", "d", " ", "t", "o", " ", "d", "e", "c", "o", "d", "e", " ", "w",
      "i", "t", "n", "e", "s", "s", " ", "d", "a", "t", "a">>

\* "unexpected failure"
S_UnexpectedFailure ==
    <<"u", "n", "e", "x", "p", "e", "c", "t", "e", "d", " ", "f", "a", "i", "l", "u", "r", "e">>

\* const TEXT_CONTENT_TYPES
TEXT_CONTENT_TYPES ==
    { <<"t", "e", "x", "t", "/", "p", "l", "a", "i", "n">>,   \* text/plain
      <<"t", "e", "x", "t", "/", "h", "t", "m", "l">>,   \* text/html
      <<"t", "e", "x", "t", "/", "c", "s", "s">>,   \* text/css
      <<"t", "e", "x", "t", "/", "j", "a", "v", "a", "s", "c", "r", "i", "p", "t">>,   \* text/javascript
      <<"t", "e", "x", "t", "/", "t", "y", "p", "e", "s", "c", "r", "i", "p", "t">>,   \* text/typescript
      <<"t", "e", "x", "t", "/", "c", "s", "v">>,   \* text/csv
      <<"t", "e", "x", "t", "/", "x", "m", "l">>,   \* text/xml
      <<"t", "e", "x", "t", "/", "m", "a", "r", "k", "d", "o", "w", "n">>,   \* text/markdown
      <<"t", "e", "x", "t", "/", "r", "t", "f">>,   \* text/rtf
      <<"a", "p", "p", "l", "i", "c", "a", "t", "i", "o", "n", "/", "j", "s", "o", "n">>,   \* application/json
      <<"a", "p", "p", "l", "i", "c", "a", "t", "i", "o", "n", "/", "x", "m", "l">>,   \* application/xml
      <<"a", "p", "p", "l", "i", "c", "a", "t", "i", "o", "n", "/", "j", "a", "v", "a", "s", "c", "r", "i", "p", "t">>,   \* application/javascript
      <<"a", "p", "p", "l", "i", "c", "a", "t", "i", "o", "n", "/", "t", "y", "p", "e", "s", "c", "r", "i", "p", "t">>,   \* application/typescript
      <<"a", "p", "p", "l", "i", "c", "a", "t", "i", "o", "n", "/", "x", "-", "j", "a", "v", "a", "s", "c", "r", "i", "p", "t">>,   \* application/x-javascript
      <<"a", "p", "p", "l", "i", "c", "a", "t", "i", "o", "n", "/", "x", "-", "t", "y", "p", "e", "s", "c", "r", "i", "p", "t">>,   \* application/x-typescript
      <<"a", "p", "p", "l", "i", "c", "a", "t", "i", "o", "n", "/", "e", "c", "m", "a", "s", "c", "r", "i", "p", "t">>,   \* application/ecmascript
      <<"a", "p", "p", "l", "i", "c", "a", "t", "i", "o", "n", "/", "r", "s", "s", "+", "x", "m", "l">>,   \* application/rss+xml
      <<"a", "p", "p", "l", "i", "c", "a", "t", "i", "o", "n", "/", "a", "t", "o", "m", "+", "x", "m", "l">>,   \* application/atom+xml
      <<"a", "p", "p", "l", "i", "c", "a", "t", "i", "o", "n", "/", "x", "h", "t", "m", "l", "+", "x", "m", "l">>,   \* application/xhtml+xml
      <<"a", "p", "p", "l", "i", "c", "a", "t", "i", "o", "n", "/", "s", "o", "a", "p", "+", "x", "m", "l">>,   \* application/soap+xml
      <<"a", "p", "p", "l", "i", "c", "a", "t", "i", "o", "n", "/", "m", "a", "t", "h", "m", "l", "+", "x", "m", "l">>,   \* application/mathml+xml
      <<"a", "p", "p", "l", "i", "c", "a", "t", "i", "o", "n", "/", "x", "s", "l", "t", "+", "x", "m", "l">>,   \* application/xslt+xml
      <<"a", "p", "p", "l", "i", "c", "a", "t", "i", "o", "n", "/", "r", "d", "f", "+", "x", "m", "l">>,   \* application/rdf+xml
      <<"a", "p", "p", "l", "i", "c", "a", "t", "i", "o", "n", "/", "l", "d", "+", "j", "s", "o", "n">>,   \* application/ld+json
      <<"a", "p", "p", "l", "i", "c", "a", "t", "i", "o", "n", "/", "h", "a", "l", "+", "j", "s", "o", "n">>,   \* application/hal+json
      <<"a", "p", "p", "l", "i", "c", "a", "t", "i", "o", "n", "/", "v", "n", "d", ".", "a", "p", "i", "+", "j", "s", "o", "n">>,   \* application/vnd.api+json
      <<"a", "p", "p", "l", "i", "c", "a", "t", "i", "o", "n", "/", "x", "-", "y", "a", "m", "l">>,   \* application/x-yaml
      <<"a", "p", "p", "l", "i", "c", "a", "t", "i", "o", "n", "/", "y", "a", "m", "l">>,   \* application/yaml
      <<"a", "p", "p", "l", "i", "c", "a", "t", "i", "o", "n", "/", "t", "o", "m", "l">>,   \* application/toml
      <<"a", "p", "p", "l", "i", "c", "a", "t", "i", "o", "n", "/", "x", "-", "t", "o", "m", "l">>,   \* application/x-toml
      <<"a", "p", "p", "l", "i", "c", "a", "t", "i", "o", "n", "/", "i", "n", "i">>,   \* application/ini
      <<"a", "p", "p", "l", "i", "c", "a", "t", "i", "o", "n", "/", "x", "-", "i", "n", "i">>,   \* application/x-ini
      <<"a", "p", "p", "l", "i", "c", "a", "t", "i", "o", "n", "/", "x", "-", "p", "r", "o", "p", "e", "r", "t", "i", "e", "s">>,   \* application/x-properties
      <<"a", "p", "p", "l", "i", "c", "a", "t", "i", "o", "n", "/", "x", "-", "s", "h">>,   \* application/x-sh
      <<"a", "p", "p", "l", "i", "c", "a", "t", "i", "o", "n", "/", "x", "-", "s", "h", "e", "l", "l", "s", "c", "r", "i", "p", "t">>,   \* application/x-shellscript
      <<"a", "p", "p", "l", "i", "c", "a", "t", "i", "o", "n", "/", "x", "-", "p", "e", "r", "l">>,   \* application/x-perl
      <<"a", "p", "p", "l", "i", "c", "a", "t", "i", "o", "n", "/", "x", "-", "p", "y", "t", "h", "o", "n">>,   \* application/x-python
      <<"a", "p", "p", "l", "i", "c", "a", "t", "i", "o", "n", "/", "x", "-", "r", "u", "b", "y">>,   \* application/x-ruby
      <<"a", "p", "p", "l", "i", "c", "a", "t", "i", "o", "n", "/", "x", "-", "p", "h", "p">>,   \* application/x-php
      <<"a", "p", "p", "l", "i", "c", "a", "t", "i", "o", "n", "/", "x", "-", "s", "q", "l">>,   \* application/x-sql
      <<"a", "p", "p", "l", "i", "c", "a", "t", "i", "o", "n", "/", "s", "q", "l">> }   \* application/sql

\* const TEXT_FILE_EXTENSIONS
TEXT_FILE_EXTENSIONS ==
    { <<"t", "x", "t">>,   \* txt
      <<"m", "d">>,   \* md
      <<"m", "a", "r", "k", "d", "o", "w", "n">>,   \* markdown
      <<"r", "s", "t">>,   \* rst
      <<"l", "o", "g">>,   \* log
      <<"c", "f", "g">>,   \* cfg
      <<"c", "o", "n", "f">>,   \* conf
      <<"i", "n", "i">>,   \* ini
      <<"e", "n", "v">>,   \* env
      <<"j", "s", "o", "n">>,   \* json
      <<"x", "m", "l">>,   \* xml
      <<"y", "a", "m", "l">>,   \* yaml
      <<"y", "m", "l">>,   \* yml
      <<"t", "o", "m", "l">>,   \* toml
      <<"c", "s", "v">>,   \* csv
      <<"t", "s", "v">>,   \* tsv
      <<"h", "t", "m", "l">>,   \* html
      <<"h", "t", "m">>,   \* htm
      <<"x", "h", "t", "m", "l">>,   \* xhtml
      <<"c", "s", "s">>,   \* css
      <<"j", "s">>,   \* js
      <<"t", "s">>,   \* ts
      <<"j", "s", "x">>,   \* jsx
      <<"t", "s", "x">>,   \* tsx
      <<"p", "y">>,   \* py
      <<"r", "b">>,   \* rb
      <<"p", "h", "p">>,   \* php
      <<"p", "l">>,   \* pl
      <<"s", "h">>,   \* sh
      <<"b", "a", "s", "h">>,   \* bash
      <<"z", "s", "h">>,   \* zsh
      <<"f", "i", "s", "h">>,   \* fish
      <<"s", "q", "l">>,   \* sql
      <<"g", "r", "a", "p", "h", "q", "l">>,   \* graphql
      <<"g", "q", "l">>,   \* gql
      <<"p", "r", "o", "t", "o">>,   \* proto
      <<"t", "h", "r", "i", "f", "t">>,   \* thrift
      <<"d", "o", "c", "k", "e", "r", "f", "i", "l", "e">>,   \* dockerfile
      <<"m", "a", "k", "e", "f", "i", "l", "e">>,   \* makefile
      <<"c", "m", "a", "k", "e">>,   \* cmake
      <<"g", "r", "a", "d", "l", "e">>,   \* gradle
      <<"g", "i", "t", "i", "g", "n", "o", "r", "e">>,   \* gitignore
      <<"g", "i", "t", "a", "t", "t", "r", "i", "b", "u", "t", "e", "s">>,   \* gitattributes
      <<"e", "d", "i", "t", "o", "r", "c", "o", "n", "f", "i", "g">>,   \* editorconfig
      <<"l", "i", "c", "e", "n", "s", "e">>,   \* license
      <<"r", "e", "a", "d", "m", "e">>,   \* readme
      <<"c", "h", "a", "n", "g", "e", "l", "o", "g">>,   \* changelog
      <<"a", "u", "t", "h", "o", "r", "s">>,   \* authors
      <<"c", "o", "n", "t", "r", "i", "b", "u", "t", "o", "r", "s">> }   \* contributors


UpperLetters == <<"A", "B", "C", "D", "E", "F", "G", "H", "I", "J", "K", "L", "M",
                  "N", "O", "P", "Q", "R", "S", "T", "U", "V", "W", "X", "Y", "Z">>
LowerLetters == <<"a", "b", "c", "d", "e", "f", "g", "h", "i", "j", "k", "l", "m",
                  "n", "o", "p", "q", "r", "s", "t", "u", "v", "w", "x", "y", "z">>

\* String.prototype.toLowerCase on the characters the samples use
toLowerCase(s) ==
    [i \in 1..Len(s) |->
        IF \E k \in 1..Len(UpperLetters) : UpperLetters[k] = s[i]
        THEN LowerLetters[CHOOSE k \in 1..Len(UpperLetters) : UpperLetters[k] = s[i]]
        ELSE s[i]]

\* s.split(sep)[0]: the part of s before the first occurrence of the character sep
BeforeFirst(s, sep) ==
    IF \E i \in 1..Len(s) : s[i] = sep
    THEN SubSeq(s, 1, (CHOOSE i \in 1..Len(s) : s[i] = sep /\ \A j \in 1..(i - 1) : s[j] # sep) - 1)
    ELSE s

\* s.split(sep).pop(): the part of s after the last occurrence of the character sep
AfterLast(s, sep) ==
    IF \E i \in 1..Len(s) : s[i] = sep
    THEN SubSeq(s, (CHOOSE i \in 1..Len(s) : s[i] = sep /\ \A j \in (i + 1)..Len(s) : s[j] # sep) + 1, Len(s))
    ELSE s

WhiteSpace == {" ", "\t", "\n", "\r"}

\* String.prototype.trim
RECURSIVE trim(_)
trim(s) ==
    IF s = <<>> THEN s
    ELSE IF s[1] \in WhiteSpace THEN trim(Tail(s))
    ELSE IF s[Len(s)] \in WhiteSpace THEN trim(SubSeq(s, 1, Len(s) - 1))
    ELSE s

EndsWith(s, p) == Len(s) >= Len(p) /\ SubSeq(s, Len(s) - Len(p) + 1, Len(s)) = p

\* value.includes(word)
Includes(s, w) == \E i \in 1..(Len(s) - Len(w) + 1) : SubSeq(s, i, i + Len(w) - 1) = w

\* TEXT_CONTENT_PATTERNS.some(pattern => pattern.test(t))
MatchesTextPattern(t) ==
    \/ StartsWith(t, S_text_slash)
    \/ EndsWith(t, S_plus_xml)
    \/ EndsWith(t, S_plus_json)
    \/ EndsWith(t, S_plus_yaml)
    \/ EndsWith(t, S_plus_toml)

\* a mutant of isTextContentType: the declared type is not lower-cased
isTextContentType_caseSensitive(contentType) ==
    IF contentType = <<>> THEN FALSE
    ELSE LET normalizedType == trim(BeforeFirst(contentType, ";"))
         IN  IF normalizedType = <<>> THEN FALSE
             ELSE IF normalizedType \in TEXT_CONTENT_TYPES THEN TRUE
             ELSE MatchesTextPattern(normalizedType)

isTextContentType(contentType) ==
    IF contentType = <<>> THEN FALSE
    ELSE LET normalizedType == trim(BeforeFirst(toLowerCase(contentType), ";"))
         IN  IF normalizedType = <<>> THEN FALSE
             ELSE IF normalizedType \in TEXT_CONTENT_TYPES THEN TRUE
             ELSE MatchesTextPattern(normalizedType)

isTextFileExtension(filename) ==
    IF filename = <<>> THEN FALSE
    ELSE LET extension == AfterLast(toLowerCase(filename), ".")
         IN  IF extension = <<>> THEN FALSE ELSE extension \in TEXT_FILE_EXTENSIONS

\* a mutant of shouldTreatAsText: the extension decides for every type that
\* is not textual
shouldTreatAsText_anyType(contentType, filename) ==
    IF isTextContentType(contentType) THEN TRUE
    ELSE IF filename # <<>> THEN isTextFileExtension(filename)
    ELSE FALSE

\* an absent filename or content type is the empty sequence
shouldTreatAsText(contentType, filename) ==
    IF isTextContentType(contentType) THEN TRUE
    ELSE IF /\ filename # <<>>
            /\ \/ contentType = S_application_octet_stream
               \/ contentType = S_binary_octet_stream
               \/ contentType = S_application_unknown
               \/ contentType = <<>>
    THEN isTextFileExtension(filename)
    ELSE FALSE

IsContinuation(b) == b \in 128..191

\* the range allowed for the second byte of a 3- or 4-byte sequence
SecondByteOK(lead, b) ==
    CASE lead = 224 -> b \in 160..191
      [] lead = 237 -> b \in 128..159
      [] lead = 240 -> b \in 144..191
      [] lead = 244 -> b \in 128..143
      [] OTHER -> b \in 128..191

\* Buffer.from(content).toString("utf8"): a byte that starts no well-formed
\* sequence decodes to U+FFFD (65533).  A truncated sequence is replaced
\* here byte by byte; only the number of U+FFFD in the result depends on it.
RECURSIVE Utf8Decode(_)
Utf8Decode(bs) ==
    IF bs = <<>> THEN <<>>
    ELSE LET b == bs[1]
             n == Len(bs)
         IN  IF b < 128 THEN <<b>> \o Utf8Decode(Tail(bs))
             ELSE IF b \in 194..223 /\ n >= 2 /\ IsContinuation(bs[2])
             THEN <<(b - 192) * 64 + (bs[2] - 128)>> \o Utf8Decode(SubSeq(bs, 3, n))
             ELSE IF b \in 224..239 /\ n >= 3 /\ SecondByteOK(b, bs[2]) /\ IsContinuation(bs[3])
             THEN <<(b - 224) * 4096 + (bs[2] - 128) * 64 + (bs[3] - 128)>>
                  \o Utf8Decode(SubSeq(bs, 4, n))
             ELSE IF /\ b \in 240..244 /\ n >= 4 /\ SecondByteOK(b, bs[2])
                     /\ IsContinuation(bs[3]) /\ IsContinuation(bs[4])
             THEN LET cp == (b - 240) * 262144 + (bs[2] - 128) * 4096
                            + (bs[3] - 128) * 64 + (bs[4] - 128) - 65536
                  IN  <<55296 + (cp \div 1024), 56320 + (cp % 1024)>> \o Utf8Decode(SubSeq(bs, 5, n))
             ELSE <<65533>> \o Utf8Decode(Tail(bs))

\* a mutant of safeBufferToUtf8: the decoded text is never checked for U+FFFD
safeBufferToUtf8_unchecked(content) == [ok |-> TRUE, text |-> Utf8Decode(content)]

\* the result is [ok |-> TRUE, text |-> string] or [ok |-> FALSE] for null
safeBufferToUtf8(content) ==
    LET text == Utf8Decode(content)
    IN  IF \E i \in 1..Len(text) : text[i] = 65533
        THEN [ok |-> FALSE]
        ELSE [ok |-> TRUE, text |-> text]

\* the code unit of the n-th character of the base64 alphabet
Base64Char(n) ==
    IF n < 26 THEN 65 + n
    ELSE IF n < 52 THEN 97 + (n - 26)
    ELSE IF n < 62 THEN 48 + (n - 52)
    ELSE IF n = 62 THEN 43 ELSE 47

\* Buffer.from(content).toString("base64")
RECURSIVE ToBase64(_)
ToBase64(bs) ==
    IF bs = <<>> THEN <<>>
    ELSE IF Len(bs) = 1
    THEN <<Base64Char(bs[1] \div 4), Base64Char((bs[1] % 4) * 16), 61, 61>>
    ELSE IF Len(bs) = 2
    THEN <<Base64Char(bs[1] \div 4), Base64Char((bs[1] % 4) * 16 + (bs[2] \div 16)),
           Base64Char((bs[2] % 16) * 4), 61>>
    ELSE <<Base64Char(bs[1] \div 4), Base64Char((bs[1] % 4) * 16 + (bs[2] \div 16)),
           Base64Char((bs[2] % 16) * 4 + (bs[3] \div 64)), Base64Char(bs[3] % 64)>>
         \o ToBase64(SubSeq(bs, 4, Len(bs)))

convertContentToString(content, contentType, filename) ==
    LET isText == shouldTreatAsText(contentType, filename)
        utf8Content == safeBufferToUtf8(content)
    IN  IF isText /\ utf8Content.ok
        THEN [content |-> utf8Content.text, encoding |-> "utf8", isText |-> TRUE]
        ELSE [content |-> ToBase64(content), encoding |-> "base64", isText |-> FALSE]

HexDigits == <<"0", "1", "2", "3", "4", "5", "6", "7", "8", "9", "a", "b", "c", "d", "e", "f">>

\* a mutant of ToHex: each byte as Number.toString(16), without the leading zero
RECURSIVE ToHex_unpadded(_)
ToHex_unpadded(bs) ==
    IF bs = <<>> THEN <<>>
    ELSE (IF bs[1] < 16 THEN <<HexDigits[bs[1] + 1]>>
          ELSE <<HexDigits[(bs[1] \div 16) + 1], HexDigits[(bs[1] % 16) + 1]>>)
         \o ToHex_unpadded(Tail(bs))

\* Buffer.from(content).toString("hex")
RECURSIVE ToHexRec(_)
ToHexRec(bs) ==
    IF bs = <<>> THEN <<>>
    ELSE <<HexDigits[(bs[1] \div 16) + 1], HexDigits[(bs[1] % 16) + 1]>> \o ToHexRec(Tail(bs))

ToHex(bs) == ToHexRec(bs)

(***************************************************************************)
(* CKBFSService: the retry wrapper and the three fetch functions           *)
(***************************************************************************)
\* options.retryAttempts || 3: the controller sets no retryAttempts
RetryAttempts == 3

\* options.timeout || 30000 and options.retryDelay || 1000, in milliseconds
TimeoutMs == 30000
RetryDelay == 1000

\* a mutant of BackoffDelay: the same delay before every attempt
BackoffDelay_constant(attempt) == RetryDelay

\* the delay before the attempt after the given one: retryDelay * attempt
BackoffDelay(attempt) == RetryDelay * attempt

\* the networkSchema: Joi.string().valid("mainnet", "testnet")
Networks == {S_mainnet, S_testnet}

\* options.defaultNetwork || "testnet": the controller passes config.ckb.network,
\* the environment's CKB_NETWORK with the default "testnet"
DefaultNetwork == S_testnet

\* the record with no fields, and the records a spread ...(x && { k: x }) adds
EmptyRecord == [k \in {} |-> TRUE]
Merge(a, b) == [k \in DOMAIN a \cup DOMAIN b |-> IF k \in DOMAIN b THEN b[k] ELSE a[k]]
Without(r, keys) == [k \in DOMAIN r \ keys |-> r[k]]

\* what the resolver (getFileContentFromChainByIdentifier) resolves to: a
\* file-data record, or null
NullData == [null |-> TRUE]
IsNull(fd) == "null" \in DOMAIN fd

\* fileData.content is truthy: the property is set (an empty Uint8Array is
\* an object, and truthy)
HasContent(fd) == "content" \in DOMAIN fd

\* a settled promise
Pending == [status |-> "pending"]
Fulfilled(value) == [status |-> "fulfilled", value |-> value]
Rejected(reason) == [status |-> "rejected", reason |-> reason]

NoError == [name |-> "none"]
NoFileData == [none |-> TRUE]

\* the protocol version passed to the resolver and echoed in the metadata
FileMetadata(network) ==
    [network |-> network, protocol |-> S_ckbfs, version |-> S_ProtocolVersion]

\* getFileContent from the return of withRetry to its own return or throw
FileContentResult(uri, network, includeContent, fileData) ==
    IF IsNull(fileData)
    THEN Rejected(CKBFSError("FILE_NOT_FOUND", S_FileNotFoundFor \o uri,
                             S_NoDataFoundOn \o network \o S_NetworkSuffix))
    ELSE LET \* undefined and the empty string are both falsy: <<>> stands for either
             processedContent ==
                 IF includeContent /\ HasContent(fileData)
                 THEN convertContentToString(fileData.content, fileData.contentType,
                                             fileData.filename).content
                 ELSE <<>>
             base == [uri |-> uri, filename |-> fileData.filename,
                      contentType |-> fileData.contentType, size |-> fileData.size,
                      parsedId |-> parseURI(uri).value, metadata |-> FileMetadata(network)]
             content == IF processedContent # <<>> THEN [content |-> processedContent]
                        ELSE EmptyRecord
             checksum == IF "checksum" \in DOMAIN fileData /\ fileData.checksum # 0
                         THEN [checksum |-> fileData.checksum] ELSE EmptyRecord
             backLinks == IF "backLinks" \in DOMAIN fileData
                          THEN [backLinks |-> fileData.backLinks] ELSE EmptyRecord
         IN  Fulfilled(Merge(Merge(Merge(base, content), checksum), backLinks))

\* the catch block of getFileContent: what it throws for the error caught
FileContentCatch(uri, error) ==
    IF IsCKBFSError(error) THEN error
    ELSE IF Includes(error.message, S_not_found)
    THEN CKBFSError("FILE_NOT_FOUND", S_FileNotFoundFor \o uri, error.message)
    ELSE IF Includes(error.message, S_network) \/ Includes(error.message, S_timeout)
    THEN CKBFSError("NETWORK_ERROR", S_NetworkErrorFor \o uri, error.message)
    ELSE IF Includes(error.message, S_decode) \/ Includes(error.message, S_parse)
    THEN CKBFSError("CKBFS_DECODE_ERROR", S_DecodeErrorFor \o uri, error.message)
    ELSE CKBFSError("BLOCKCHAIN_ERROR", S_BlockchainErrorFor \o uri, error.message)

\* getRawFileContent from the return of withRetry to its own return or throw
RawContentResult(uri, network, fileData) ==
    IF IsNull(fileData) \/ ~HasContent(fileData)
    THEN Rejected(CKBFSError("FILE_NOT_FOUND", S_FileContentNotFoundFor \o uri,
                             S_NoContentDataFoundOn \o network \o S_NetworkSuffix))
    ELSE Fulfilled([content |-> fileData.content, filename |-> fileData.filename,
                    contentType |-> fileData.contentType, size |-> fileData.size])

\* the catch block of getRawFileContent: throw error
RawContentCatch(uri, error) == error

\* a mutant of validateNetworkWith: the network is returned unvalidated
validateNetworkWith_unvalidated(network, defaultNetwork) ==
    [ok |-> TRUE, value |-> IF network = <<>> THEN defaultNetwork ELSE network]

\* validateNetwork of a service whose options.defaultNetwork is defaultNetwork:
\* [ok |-> TRUE, value |-> network] or [ok |-> FALSE, error |-> thrown]
validateNetworkWith(network, defaultNetwork) ==
    LET \* undefined and the empty string are both falsy: <<>> stands for either
        networkToValidate == IF network = <<>> THEN defaultNetwork ELSE network
    IN  IF networkToValidate \in Networks
        THEN [ok |-> TRUE, value |-> networkToValidate]
        ELSE [ok |-> FALSE,
              error |-> CKBFSError("INVALID_NETWORK",
                                  S_InvalidNetwork \o networkToValidate \o S_MustBeNetwork,
                                  S_JoiNetworkOnly)]

\* validateNetwork of the service the controller constructs
validateNetwork(network) == validateNetworkWith(network, DefaultNetwork)

\* a mutant of InLoop: the loop never gives up
InLoop_always(attempt) == TRUE

\* a mutant of InLoop: the loop stops one attempt early
InLoop_offByOne(attempt) == attempt < RetryAttempts

\* the loop condition of withRetry: attempt <= this.options.retryAttempts
InLoop(attempt) == attempt <= RetryAttempts

\* withRetry waits before the next attempt: attempt < this.options.retryAttempts
WaitsBeforeRetry(attempt) == attempt < RetryAttempts

\* what the function that called withRetry throws for the error withRetry threw
CatchOf(f, error) ==
    IF f.kind = "json" THEN FileContentCatch(f.uri, error) ELSE RawContentCatch(f.uri, error)

\* what the function that called withRetry does with the file data returned
ResultOf(f, fileData) ==
    IF f.kind = "json"
    THEN LET r == FileContentResult(f.uri, f.network, f.includeContent, fileData)
         IN  IF r.status = "rejected" THEN Rejected(FileContentCatch(f.uri, r.reason)) ELSE r
    ELSE LET r == RawContentResult(f.uri, f.network, fileData)
         IN  IF r.status = "rejected" THEN Rejected(RawContentCatch(f.uri, r.reason)) ELSE r

(***************************************************************************)
(* A fetch: one call of getFileContent (kind "json") or getRawFileContent  *)
(* (kind "raw").  pc is "race" while an attempt's Promise.race is awaited, *)
(* "backoff" while the delay before the next attempt is awaited, and       *)
(* "settled" when the call's promise has settled.  calls counts the       *)
(* invocations of the resolver; allTimedOut records that every attempt    *)
(* ended so far was ended by its timeout; fileData is what the resolver    *)
(* returned to the attempt that succeeded; settledAt is the position of   *)
(* the call among the calls of its request in the order they settled (0   *)
(* for a call that failed before its first await).                        *)
(***************************************************************************)
\* the loop of withRetry entered with the given attempt number: the resolver
\* is invoked if the loop condition holds, else lastError is thrown
EnterAttempt(f, attempt) ==
    IF InLoop(attempt)
    THEN [f EXCEPT !.pc = "race", !.attempt = attempt, !.calls = @ + 1]
    ELSE [f EXCEPT !.pc = "settled", !.attempt = attempt,
                   !.settle = Rejected(CatchOf(f, f.lastError))]

\* the function up to its first await: validateNetwork, parseURI, and the
\* first attempt's call of the resolver
StartFetch(kind, uri, network, includeContent) ==
    LET validated == validateNetwork(network)
        parsed == parseURI(uri)
        f == [kind |-> kind, uri |-> uri, includeContent |-> includeContent,
              network |-> IF validated.ok THEN validated.value ELSE network,
              pc |-> "start", attempt |-> 0, calls |-> 0, allTimedOut |-> TRUE,
              lastError |-> NoError, fileData |-> NoFileData, settle |-> Pending,
              settledAt |-> 0]
    IN  IF ~validated.ok
        THEN [f EXCEPT !.pc = "settled", !.settle = Rejected(validated.error)]
        ELSE IF ~parsed.ok
        THEN [f EXCEPT !.pc = "settled", !.settle = Rejected(CatchOf(f, parsed.error))]
        ELSE EnterAttempt(f, 1)

\* a mutant of AttemptResolved: the loop goes on after a success
AttemptResolved_loopGoesOn(f, fileData) ==
    EnterAttempt([f EXCEPT !.allTimedOut = FALSE, !.fileData = fileData], f.attempt + 1)

\* the attempt's race is won by the resolver's promise resolving to fileData
AttemptResolved(f, fileData) ==
    [f EXCEPT !.pc = "settled", !.allTimedOut = FALSE, !.fileData = fileData,
              !.settle = ResultOf(f, fileData)]

\* a mutant of AttemptFailed: lastError keeps the error of the first failure
AttemptFailed_keepsFirstError(f, error, timedOut) ==
    LET g == [f EXCEPT !.lastError = IF @ = NoError THEN error ELSE @,
                       !.allTimedOut = @ /\ timedOut]
    IN  IF WaitsBeforeRetry(f.attempt)
        THEN [g EXCEPT !.pc = "backoff"]
        ELSE EnterAttempt(g, f.attempt + 1)

\* the attempt's race is lost: the resolver rejected, or the timeout fired
AttemptFailed(f, error, timedOut) ==
    LET g == [f EXCEPT !.lastError = error, !.allTimedOut = @ /\ timedOut]
    IN  IF WaitsBeforeRetry(f.attempt)
        THEN [g EXCEPT !.pc = "backoff"]
        ELSE EnterAttempt(g, f.attempt + 1)

\* the delay retryDelay * attempt has elapsed
BackoffElapsed(f) == EnterAttempt(f, f.attempt + 1)

(***************************************************************************)
(* middleware/validation.ts: the Joi schemas of the query endpoints        *)
(***************************************************************************)
\* "uri"
S_uri ==
    <<"u", "r", "i">>

\* "network"
S_network_field ==
    <<"n", "e", "t", "w", "o", "r", "k">>

\* "format"
S_format ==
    <<"f", "o", "r", "m", "a", "t">>

\* "includeContent"
S_includeContent ==
    <<"i", "n", "c", "l", "u", "d", "e", "C", "o", "n", "t", "e", "n", "t">>

\* "includeMetadata"
S_includeMetadata ==
    <<"i", "n", "c", "l", "u", "d", "e", "M", "e", "t", "a", "d", "a", "t", "a">>

\* ": "
S_FieldSep ==
    <<":", " ">>

\* "; "
S_ErrorSep ==
    <<";", " ">>

\* "URI must be a valid CKBFS URI format (ckbfs://{tx_hash}i{index}, ckbfs://{type_id}, 0x{type_id}, or {type_id})"
S_UriMustBeValid ==
    <<"U", "R", "I", " ", "m", "u", "s", "t", " ", "b", "e", " ", "a", " ", "v", "a", "l", "i",
      "d", " ", "C", "K", "B", "F", "S", " ", "U", "R", "I", " ", "f", "o", "r", "m", "a", "t",
      " ", "(", "c", "k", "b", "f", "s", ":", "/", "/", "{", "t", "x", "_", "h", "a", "s", "h",
      "}", "i", "{", "i", "n", "d", "e", "x", "}", ",", " ", "c", "k", "b", "f", "s", ":", "/",
      "/", "{", "t", "y", "p", "e", "_", "i", "d", "}", ",", " ", "0", "x", "{", "t", "y", "p",
      "e", "_", "i", "d", "}", ",", " ", "o", "r", " ", "{", "t", "y", "p", "e", "_", "i", "d",
      "}", ")">>

\* "URI parameter is required"
S_UriRequired ==
    <<"U", "R", "I", " ", "p", "a", "r", "a", "m", "e", "t", "e", "r", " ", "i", "s", " ", "r",
      "e", "q", "u", "i", "r", "e", "d">>

\* "Network must be either "mainnet" or "testnet""
S_NetworkMustBe ==
    <<"N", "e", "t", "w", "o", "r", "k", " ", "m", "u", "s", "t", " ", "b", "e", " ", "e", "i",
      "t", "h", "e", "r", " ", "\"", "m", "a", "i", "n", "n", "e", "t", "\"", " ", "o", "r", " ",
      "\"", "t", "e", "s", "t", "n", "e", "t", "\"">>

\* "Format must be either "json" or "raw""
S_FormatMustBe ==
    <<"F", "o", "r", "m", "a", "t", " ", "m", "u", "s", "t", " ", "b", "e", " ", "e", "i", "t",
      "h", "e", "r", " ", "\"", "j", "s", "o", "n", "\"", " ", "o", "r", " ", "\"", "r", "a", "w",
      "\"">>

\* "includeContent must be a boolean value"
S_IncludeContentBoolean ==
    <<"i", "n", "c", "l", "u", "d", "e", "C", "o", "n", "t", "e", "n", "t", " ", "m", "u", "s",
      "t", " ", "b", "e", " ", "a", " ", "b", "o", "o", "l", "e", "a", "n", " ", "v", "a", "l",
      "u", "e">>

\* "includeMetadata must be a boolean value"
S_IncludeMetadataBoolean ==
    <<"i", "n", "c", "l", "u", "d", "e", "M", "e", "t", "a", "d", "a", "t", "a", " ", "m", "u",
      "s", "t", " ", "b", "e", " ", "a", " ", "b", "o", "o", "l", "e", "a", "n", " ", "v", "a",
      "l", "u", "e">>

\* "fetch failed"
S_FetchFailed ==
    <<"f", "e", "t", "c", "h", " ", "f", "a", "i", "l", "e", "d">>


\* "uris"
S_uris ==
    <<"u", "r", "i", "s">>

\* "."
S_Dot ==
    <<".">>

\* ""uris["
S_UrisItemOpen ==
    <<"\"", "u", "r", "i", "s", "[">>

\* "]" does not match any of the allowed types"
S_UrisItemNoMatch ==
    <<"]", "\"", " ", "d", "o", "e", "s", " ", "n", "o", "t", " ", "m", "a", "t", "c", "h", " ",
      "a", "n", "y", " ", "o", "f", " ", "t", "h", "e", " ", "a", "l", "l", "o", "w", "e", "d",
      " ", "t", "y", "p", "e", "s">>

\* "At least one URI is required"
S_UrisMin ==
    <<"A", "t", " ", "l", "e", "a", "s", "t", " ", "o", "n", "e", " ", "U", "R", "I", " ", "i",
      "s", " ", "r", "e", "q", "u", "i", "r", "e", "d">>

\* "Maximum 10 URIs allowed per batch request"
S_UrisMax ==
    <<"M", "a", "x", "i", "m", "u", "m", " ", "1", "0", " ", "U", "R", "I", "s", " ", "a", "l",
      "l", "o", "w", "e", "d", " ", "p", "e", "r", " ", "b", "a", "t", "c", "h", " ", "r", "e",
      "q", "u", "e", "s", "t">>

\* "URIs array is required"
S_UrisRequired ==
    <<"U", "R", "I", "s", " ", "a", "r", "r", "a", "y", " ", "i", "s", " ", "r", "e", "q", "u",
      "i", "r", "e", "d">>


\* schemas.ckbfsUri: the alternatives of three patterns
JoiCkbfsUri(s) ==
    MatchOutPointUri(s) \/ MatchTypeIdUri(s) \/ MatchHexTypeId(s) \/ MatchBareTypeId(s)

\* Joi.boolean() with convert: the strings it converts
JoiBooleanStrings == {"true", "false"}
JoiBoolean(v) == v = "true"

\* the keys of the endpoint's object schema (validationSchemas, parseQuerySchema)
SchemaKeys(endpoint) ==
    CASE endpoint = "ckbfs" ->
             {"uri", "network", "format", "includeContent", "includeMetadata"}
      [] endpoint \in {"metadata", "validate", "compatible"} -> {"uri", "network"}
      [] endpoint = "parse" -> {"uri"}
      [] endpoint = "batch" ->
             {"uris", "network", "format", "includeContent", "includeMetadata"}

\* the items of schemas.uris: the alternatives of four patterns
JoiUrisItem(s) ==
    MatchOutPointUri(s) \/ MatchTypeIdUri(s) \/ MatchHexTypeId(s) \/ MatchBareTypeId(s)

\* schemas.uris: .min(1) and .max(10)
MinUris == 1
MaxUris == 10

\* a number as decimal text
DigitChars == <<"0", "1", "2", "3", "4", "5", "6", "7", "8", "9">>
RECURSIVE DecimalText(_)
DecimalText(n) ==
    IF n < 10 THEN <<DigitChars[n + 1]>>
    ELSE DecimalText(n \div 10) \o <<DigitChars[(n % 10) + 1]>>

\* the errors of the items of uris that match none of the four patterns
\* (path uris.<index>, Joi's own message), in the order of the items
RECURSIVE UrisItemErrors(_, _)
UrisItemErrors(uris, i) ==
    IF i > Len(uris) THEN <<>>
    ELSE (IF JoiUrisItem(uris[i]) THEN <<>>
          ELSE <<S_uris \o S_Dot \o DecimalText(i - 1) \o S_FieldSep
                 \o S_UrisItemOpen \o DecimalText(i - 1) \o S_UrisItemNoMatch>>)
         \o UrisItemErrors(uris, i + 1)

\* `${err.field}: ${err.message}`
FieldError(field, message) == <<field \o S_FieldSep \o message>>

\* error.details of schema.validate with abortEarly false, as the list of
\* "field: message" texts in the order of the schema's keys
ValidationErrors(endpoint, q) ==
    LET keys == SchemaKeys(endpoint)
        uri == IF "uri" \notin keys THEN <<>>
               ELSE IF "uri" \notin DOMAIN q THEN FieldError(S_uri, S_UriRequired)
               ELSE IF ~JoiCkbfsUri(q.uri) THEN FieldError(S_uri, S_UriMustBeValid)
               ELSE <<>>
        uris == IF "uris" \notin keys THEN <<>>
                ELSE IF "uris" \notin DOMAIN q THEN FieldError(S_uris, S_UrisRequired)
                ELSE UrisItemErrors(q.uris, 1)
                     \o (IF Len(q.uris) < MinUris THEN FieldError(S_uris, S_UrisMin)
                         ELSE IF Len(q.uris) > MaxUris THEN FieldError(S_uris, S_UrisMax)
                         ELSE <<>>)
        network == IF "network" \in keys \cap DOMAIN q /\ q.network \notin Networks
                   THEN FieldError(S_network_field, S_NetworkMustBe) ELSE <<>>
        format == IF "format" \in keys \cap DOMAIN q /\ q.format \notin {"json", "raw"}
                  THEN FieldError(S_format, S_FormatMustBe) ELSE <<>>
        includeContent ==
            IF "includeContent" \in keys \cap DOMAIN q
               /\ q.includeContent \notin JoiBooleanStrings
            THEN FieldError(S_includeContent, S_IncludeContentBoolean) ELSE <<>>
        includeMetadata ==
            IF "includeMetadata" \in keys \cap DOMAIN q
               /\ q.includeMetadata \notin JoiBooleanStrings
            THEN FieldError(S_includeMetadata, S_IncludeMetadataBoolean) ELSE <<>>
    IN  uri \o uris \o network \o format \o includeContent \o includeMetadata

\* validationErrors.map(...).join("; ")
RECURSIVE JoinErrors(_)
JoinErrors(errors) ==
    IF errors = <<>> THEN <<>>
    ELSE IF Len(errors) = 1 THEN errors[1]
    ELSE errors[1] \o S_ErrorSep \o JoinErrors(Tail(errors))

\* the value of schema.validate: unknown keys stripped, strings converted,
\* defaults filled in
ValidatedQuery(endpoint, q) ==
    LET keys == SchemaKeys(endpoint)
        uri == IF "uri" \notin keys THEN EmptyRecord ELSE [uri |-> q.uri]
        uris == IF "uris" \notin keys THEN EmptyRecord ELSE [uris |-> q.uris]
        network == IF "network" \notin keys THEN EmptyRecord
                   ELSE [network |-> IF "network" \in DOMAIN q THEN q.network ELSE S_testnet]
        format == IF "format" \notin keys THEN EmptyRecord
                  ELSE [format |-> IF "format" \in DOMAIN q THEN q.format ELSE "json"]
        includeContent ==
            IF "includeContent" \notin keys THEN EmptyRecord
            ELSE [includeContent |-> IF "includeContent" \in DOMAIN q
                                     THEN JoiBoolean(q.includeContent) ELSE TRUE]
        includeMetadata ==
            IF "includeMetadata" \notin keys THEN EmptyRecord
            ELSE [includeMetadata |-> IF "includeMetadata" \in DOMAIN q
                                      THEN JoiBoolean(q.includeMetadata) ELSE TRUE]
    IN  Merge(Merge(Merge(Merge(Merge(uri, uris), network), format), includeContent),
              includeMetadata)

\* the response of validateQuery when the schema reports an error
QueryValidationFailure(endpoint, q) ==
    ErrorEnvelope(HttpStatus.BAD_REQUEST,
                  ErrorResponse("MISSING_REQUIRED_FIELD", S_QueryValidationFailed,
                                JoinErrors(ValidationErrors(endpoint, q))))

\* the response of validateBody when the schema reports an error
BodyValidationFailure(endpoint, body) ==
    ErrorEnvelope(HttpStatus.BAD_REQUEST,
                  ErrorResponse("MISSING_REQUIRED_FIELD", S_BodyValidationFailed,
                                JoinErrors(ValidationErrors(endpoint, body))))

(***************************************************************************)
(* CKBFSController: what each handler answers once its fetch has settled   *)
(***************************************************************************)
\* the characters res.setHeader accepts in a value: tab and the printable
\* characters (of which the model's alphabet holds these ASCII ones); for
\* any other character it throws a TypeError
HeaderValueChars ==
    {UpperLetters[i] : i \in DOMAIN UpperLetters} \cup
    {LowerLetters[i] : i \in DOMAIN LowerLetters} \cup
    {DigitChars[i] : i \in DOMAIN DigitChars} \cup
    {"\t", " ", "!", "\"", "#", "$", "%", "&", "(", ")", "*", "+", ",", "-",
     ".", "/", ":", ";", "<", "=", ">", "?", "@", "[", "\\", "]", "^", "_",
     "{", "|", "}", "~"}

IsValidHeaderValue(value) == AllIn(value, 1, Len(value), HeaderValueChars)

\* the values of the res.setHeader calls of the raw branch that come from the
\* file, in the order of the calls: Content-Type, Content-Disposition,
\* X-CKBFS-Filename.  (Content-Length and X-CKBFS-Size are the digits of a
\* number, X-CKBFS-URI and X-CKBFS-Network passed the route's validation.)
RawHeaderValues(rawFile) ==
    <<[name |-> "ContentType", value |-> rawFile.contentType],
      [name |-> "ContentDisposition",
       value |-> S_InlineFilename \o rawFile.filename \o <<"\"">>],
      [name |-> "Filename", value |-> rawFile.filename]>>

\* the raw branch of getFileByURI: headers, status 200, the content bytes.
\* A setHeader call that throws ends the branch in catch { next(error) }
\* with the headers of the calls before it set on the response; the error
\* handlers set the status and the body and remove no header, and res.json
\* keeps a Content-Type that is set (adding its charset) while res.send
\* replaces Content-Length.
RawResponse(query, rawFile) ==
    LET values == RawHeaderValues(rawFile)
        thrown == {i \in DOMAIN values : ~IsValidHeaderValue(values[i].value)}
    IN  IF thrown = {}
        THEN [status |-> HttpStatus.OK, type |-> "raw",
              headers |-> [ContentType |-> rawFile.contentType, ContentLength |-> rawFile.size,
                           Filename |-> rawFile.filename, Uri |-> query.uri,
                           Network |-> IF query.network = <<>> THEN S_testnet ELSE query.network],
              body |-> rawFile.content]
        ELSE LET first == CHOOSE i \in thrown : \A j \in thrown : i <= j
                 answer == RouteError([name |-> "TypeError", message |-> S_InvalidHeaderChar])
             IN  IF first = 1 THEN answer
                 ELSE Merge(answer, [headers |-> [ContentType |-> rawFile.contentType]])

\* the JSON branch of getFileByURI: the deletes, then the success envelope
JsonResponse(query, fileData) ==
    LET contentKept == IF ~query.includeContent THEN Without(fileData, {"content"})
                       ELSE fileData
        metadataKept == IF ~query.includeMetadata
                        THEN Without(contentKept, {"metadata", "backLinks", "checksum"})
                        ELSE contentKept
    IN  SuccessEnvelope(HttpStatus.OK, metadataKept)

getFileByURI(query, settle) ==
    IF settle.status = "rejected" THEN RouteError(settle.reason)
    ELSE IF query.format = "raw" THEN RawResponse(query, settle.value)
    ELSE JsonResponse(query, settle.value)

getFileMetadata(query, settle) ==
    IF settle.status = "rejected" THEN RouteError(settle.reason)
    ELSE SuccessEnvelope(HttpStatus.OK, settle.value)

\* a mutant of validateURI: a failed fetch is passed on as an error
validateURI_failurePassedOn(query, settle) ==
    IF settle.status = "rejected" THEN RouteError(settle.reason)
    ELSE SuccessEnvelope(HttpStatus.OK,
             [uri |-> query.uri, valid |-> TRUE,
              network |-> IF query.network = <<>> THEN S_testnet ELSE query.network,
              parsedId |-> parseURI(query.uri).value, checkedAt |-> Timestamp])

\* validateURI of the service turns the settlement into a boolean; the
\* controller parses the URI again and never calls next(error) for it
validateURI(query, settle) ==
    LET isValid == settle.status = "fulfilled"
        parsed == parseURI(query.uri)
        parsedId == IF parsed.ok THEN [parsedId |-> parsed.value] ELSE EmptyRecord
    IN  SuccessEnvelope(HttpStatus.OK,
            Merge([uri |-> query.uri, valid |-> isValid,
                   network |-> IF query.network = <<>> THEN S_testnet ELSE query.network,
                   checkedAt |-> Timestamp], parsedId))

\* the bare { content_type, content, filename } of the compatible endpoint
getFileCompatible(query, settle) ==
    IF settle.status = "rejected" THEN RouteError(settle.reason)
    ELSE [status |-> HttpStatus.OK, type |-> "json",
          body |-> [content_type |-> settle.value.contentType,
                    content |-> ToHex(settle.value.content),
                    filename |-> settle.value.filename]]

\* a mutant of getMultipleFiles: the entries are listed in the order the
\* fetches settled
getMultipleFiles_completionOrder(uris, fs) ==
    [index \in 1..Len(fs) |->
        LET f == fs[CHOOSE i \in 1..Len(fs) : fs[i].settledAt = index]
        IN  IF f.settle.status = "fulfilled" THEN f.settle.value
            ELSE [uri |-> uris[index],
                  error |-> IF f.settle.reason.message # <<>>
                            THEN f.settle.reason.message ELSE S_UnknownError]]

\* getMultipleFiles once every getFileContent has settled: one entry per
\* fetch, by index
getMultipleFiles(uris, fs) ==
    [index \in 1..Len(fs) |->
        IF fs[index].settle.status = "fulfilled" THEN fs[index].settle.value
        ELSE [uri |-> uris[index],
              error |-> IF fs[index].settle.reason.message # <<>>
                        THEN fs[index].settle.reason.message ELSE S_UnknownError]]

\* the deletes batchGetFiles applies to an entry that has no error property
ProcessedResult(body, result) ==
    IF "error" \in DOMAIN result THEN result
    ELSE LET contentKept == IF ~body.includeContent THEN Without(result, {"content"})
                            ELSE result
         IN  IF ~body.includeMetadata
             THEN Without(contentKept, {"metadata", "backLinks", "checksum"})
             ELSE contentKept

\* a mutant of batchGetFiles: a failed item fails the request
batchGetFiles_failFast(body, results) ==
    IF \E i \in 1..Len(results) : "error" \in DOMAIN results[i]
    THEN ErrorEnvelope(HttpStatus.INTERNAL_SERVER_ERROR,
                       ErrorResponse("INTERNAL_SERVER_ERROR", S_InternalError, NoDetails))
    ELSE SuccessEnvelope(HttpStatus.OK,
             [total |-> Len(body.uris), successful |-> Len(results), failed |-> 0,
              results |-> results, processedAt |-> Timestamp])

\* batchGetFiles after its await
batchGetFiles(body, results) ==
    LET processedResults == [i \in 1..Len(results) |-> ProcessedResult(body, results[i])]
        successCount ==
            Cardinality({i \in 1..Len(results) : "error" \notin DOMAIN processedResults[i]})
    IN  SuccessEnvelope(HttpStatus.OK,
            [total |-> Len(body.uris), successful |-> successCount,
             failed |-> Len(processedResults) - successCount,
             results |-> processedResults, processedAt |-> Timestamp])

\* a mutant of BatchRawNotSupported: the refusal of a raw batch is answered
\* as a validation failure
BatchRawNotSupported_asValidation ==
    ErrorEnvelope(HttpStatus.BAD_REQUEST,
                  ErrorResponse("VALIDATION_ERROR", S_RawNotSupported, S_UseJsonFormat))

\* batchGetFiles when the format is raw
BatchRawNotSupported ==
    ErrorEnvelope(HttpStatus.BAD_REQUEST,
                  ErrorResponse("INVALID_FORMAT", S_RawNotSupported, S_UseJsonFormat))

\* the parse endpoint: synchronous
parseURIHandler(query) ==
    LET parsed == parseURI(query.uri)
    IN  IF ~parsed.ok THEN RouteError(parsed.error)
        ELSE SuccessEnvelope(HttpStatus.OK,
                 [uri |-> query.uri, parsed |-> parsed.value, valid |-> TRUE,
                  parsedAt |-> Timestamp])

\* getHealthStatus after Promise.allSettled of the two getTipHeader probes:
\* healthChecks gives the settlement of each network's probe
getHealthStatus(healthChecks) ==
    LET testnetStatus == IF healthChecks.testnet = "fulfilled" THEN "up" ELSE "down"
        mainnetStatus == IF healthChecks.mainnet = "fulfilled" THEN "up" ELSE "down"
        overallStatus == IF testnetStatus = "up" \/ mainnetStatus = "up"
                         THEN "healthy" ELSE "unhealthy"
    IN  [status |-> overallStatus,
         networks |-> [testnet |-> testnetStatus, mainnet |-> mainnetStatus],
         lastCheck |-> Timestamp]

\* getServiceHealth after its await: the success envelope under either status
getServiceHealth(healthStatus) ==
    SuccessEnvelope(IF healthStatus.status = "healthy"
                    THEN HttpStatus.OK ELSE HttpStatus.SERVICE_UNAVAILABLE,
                    healthStatus)

(***************************************************************************)
(* Values of the variables a specification does not use                   *)
(***************************************************************************)
NoRequest == [endpoint |-> "none"]
NoArg == <<>>
NoOut == <<>>

(***************************************************************************)
(* SpecParse: parseURI applied to strings built from a prefix, a hash      *)
(* body and a suffix.  No sample prefix ends and no sample suffix starts   *)
(* with a hex character, so a string has one decomposition only.           *)
(***************************************************************************)
\* the longest run of index digits in a sample suffix
MaxIndexDigits == 2

UriPrefixes ==
    { <<>>, CkbfsScheme, HexPrefix,
      <<"C", "K", "B", "F", "S", ":", "/", "/">>,
      <<"0", "X">>,
      <<"c", "k", "b", "f", "s", ":", "/">>,
      <<"i", "n", "v", "a", "l", "i", "d", ":", "/", "/">>,
      <<" ">> }

UriBodies ==
    { Rep(c, n) : c \in {"a", "F", "9", "g"}, n \in {HashLen - 1, HashLen, HashLen + 1} }
    \cup { [Rep("a", HashLen) EXCEPT ![k] = c] : k \in {1, HashLen}, c \in {"G", "-"} }
    \cup { [i \in 1..HashLen |-> <<"4", "c", "E">>[(i % 3) + 1]] }

DigitStrings == UNION { [1..n -> {"0", "7"}] : n \in 1..MaxIndexDigits }

UriSuffixes ==
    { <<"i">> \o ds : ds \in DigitStrings }
    \cup { <<>>, <<"i">>, <<"i", "-", "1">>, <<"i", "1", "x">>, <<"I", "0">>, <<"x">>,
           <<" ">>, <<"i", "0", " ">>, <<"i", " ", "0">>, <<"i", "0", "\n">> }

UriInputs == [prefix : UriPrefixes, body : UriBodies, suffix : UriSuffixes]

UriText(a) == a.prefix \o a.body \o a.suffix

InitParse ==
    /\ arg \in UriInputs
    /\ out = NoOut
    /\ pc = "input"
    /\ req = NoRequest
    /\ fetches = <<>>
    /\ res = <<>>

\* service.parseURI(uri)
ApplyParseURI ==
    /\ pc = "input"
    /\ req = NoRequest
    /\ arg \in UriInputs
    /\ out' = parseURI(UriText(arg))
    /\ pc' = "output"
    /\ UNCHANGED <<req, fetches, res, arg>>

NextParse == ApplyParseURI

SpecParse == InitParse /\ [][NextParse]_vars

(***************************************************************************)
(* The four accepted surface forms, stated on the parts of the input       *)
(***************************************************************************)
IsHexString(s) ==
    \A i \in 1..Len(s) :
        \/ s[i] \in {"0", "1", "2", "3", "4", "5", "6", "7", "8", "9"}
        \/ s[i] \in {"a", "b", "c", "d", "e", "f"}
        \/ s[i] \in {"A", "B", "C", "D", "E", "F"}

IsIndexSuffix(s) ==
    /\ Len(s) >= 2
    /\ s[1] = "i"
    /\ \A i \in 2..Len(s) : s[i] \in {"0", "1", "2", "3", "4", "5", "6", "7", "8", "9"}

IsAcceptedForm(a) ==
    /\ Len(a.body) = 64
    /\ IsHexString(a.body)
    /\ \/ a.prefix = <<"c", "k", "b", "f", "s", ":", "/", "/">> /\ IsIndexSuffix(a.suffix)
       \/ a.prefix = <<"c", "k", "b", "f", "s", ":", "/", "/">> /\ a.suffix = <<>>
       \/ a.prefix = <<"0", "x">> /\ a.suffix = <<>>
       \/ a.prefix = <<>> /\ a.suffix = <<>>

\* C10: parseURI succeeds for exactly the strings of one of the four accepted
\* forms (ckbfs://+64 hex+i+digits, ckbfs://+64 hex, 0x+64 hex, bare 64 hex)
\* and fails with a CKBFSError of code INVALID_URI for every other string.
C10_ParseAcceptsExactlyFourForms ==
    pc = "output" =>
        /\ out.ok <=> IsAcceptedForm(arg)
        /\ ~out.ok => IsCKBFSError(out.error) /\ out.error.code = "INVALID_URI"

\* C10 witness: ckbfs:// + 64 hex + "i-1" (a negative index) was rejected
C10_Witness ==
    /\ pc = "output"
    /\ ~out.ok
    /\ arg.prefix = CkbfsScheme
    /\ arg.body = Rep("a", HashLen)
    /\ arg.suffix = <<"i", "-", "1">>

\* the value of a run of decimal digits, by the weight of each position
RECURSIVE Pow10(_)
Pow10(n) == IF n = 0 THEN 1 ELSE 10 * Pow10(n - 1)
DigitValue(c) ==
    CHOOSE v \in 0..9 : <<"0", "1", "2", "3", "4", "5", "6", "7", "8", "9">>[v + 1] = c
RECURSIVE PositionalValue(_)
PositionalValue(ds) ==
    IF ds = <<>> THEN 0
    ELSE DigitValue(Head(ds)) * Pow10(Len(ds) - 1) + PositionalValue(Tail(ds))

\* C11: a successful parseURI result keeps the input as raw and has exactly
\* one variant: the ckbfs://<hash>i<index> form gives type outPoint with
\* txHash "0x"+hash and index the decimal value of the digits, and no typeId;
\* the three other forms give type typeId with typeId "0x"+hash, and no
\* txHash or index.
C11_ParseResultHasOneVariant ==
    (pc = "output" /\ out.ok) =>
        /\ out.value.raw = arg.prefix \o arg.body \o arg.suffix
        /\ IF arg.suffix # <<>>
           THEN /\ DOMAIN out.value = {"type", "raw", "txHash", "index"}
                /\ out.value.type = "outPoint"
                /\ out.value.txHash = <<"0", "x">> \o arg.body
                /\ out.value.index \in Nat
                /\ out.value.index = PositionalValue(Tail(arg.suffix))
           ELSE /\ DOMAIN out.value = {"type", "raw", "typeId"}
                /\ out.value.type = "typeId"
                /\ out.value.typeId = <<"0", "x">> \o arg.body

\* an index of 0 written with two digits
C11_Witness ==
    /\ pc = "output"
    /\ out.ok
    /\ arg.suffix = <<"i", "0", "0">>
    /\ out.value.type = "outPoint"
    /\ out.value.index = 0
    /\ out.value.txHash = HexPrefix \o arg.body


(***************************************************************************)
(* SpecErr: an error raised in a controller passed to next(error)          *)
(***************************************************************************)
SampleMessages ==
    { S_FileNotFoundFor \o CkbfsScheme \o Rep("a", HashLen),
      S_NetworkErrorFor \o HexPrefix \o Rep("b", HashLen),
      S_InternalError }

SampleDetails == { NoDetails, S_NoDataFoundOn \o S_testnet \o S_NetworkSuffix, S_OperationTimeout }

RaisedErrors ==
    { CKBFSError(c, m, d) : c \in ErrorCode, m \in SampleMessages, d \in SampleDetails }
    \cup { [name |-> n, message |-> m] : n \in {"Error", "TypeError", "ValidationError"}, m \in SampleMessages }

InitErr ==
    /\ arg \in RaisedErrors
    /\ out = NoOut
    /\ pc = "input"
    /\ req = NoRequest
    /\ fetches = <<>>
    /\ res = <<>>

\* next(error)
ApplyRouteError ==
    /\ pc = "input"
    /\ req = NoRequest
    /\ arg \in RaisedErrors
    /\ out' = RouteError(arg)
    /\ pc' = "output"
    /\ UNCHANGED <<req, fetches, res, arg>>

NextErr == ApplyRouteError

SpecErr == InitErr /\ [][NextErr]_vars

\* C7: a CKBFSError passed to next() is answered with the HTTP status its code
\* determines (INVALID_URI, INVALID_NETWORK, INVALID_FORMAT -> 400;
\* FILE_NOT_FOUND -> 404; NETWORK_ERROR -> 502; SERVICE_UNAVAILABLE -> 503;
\* BLOCKCHAIN_ERROR, INTERNAL_SERVER_ERROR -> 500), and the response's
\* error.code, error.message and error.details are those of the error.
C7_StatusByCodeAndErrorEchoed ==
    (pc = "output" /\ arg.name = "CKBFSError") =>
        /\ arg.code \in {"INVALID_URI", "INVALID_NETWORK", "INVALID_FORMAT"} => out.status = 400
        /\ arg.code = "FILE_NOT_FOUND" => out.status = 404
        /\ arg.code = "NETWORK_ERROR" => out.status = 502
        /\ arg.code = "SERVICE_UNAVAILABLE" => out.status = 503
        /\ arg.code \in {"BLOCKCHAIN_ERROR", "INTERNAL_SERVER_ERROR"} => out.status = 500
        /\ out.body.success = FALSE
        /\ out.body.error.code = arg.code
        /\ out.body.error.message = arg.message
        /\ ("details" \in DOMAIN out.body.error) <=> ("details" \in DOMAIN arg)
        /\ "details" \in DOMAIN arg => out.body.error.details = arg.details

\* C7 witness: a FILE_NOT_FOUND error with details was answered
C7_Witness ==
    /\ pc = "output"
    /\ arg.name = "CKBFSError"
    /\ arg.code = "FILE_NOT_FOUND"
    /\ "details" \in DOMAIN arg
    /\ out.status = 404

(***************************************************************************)
(* Spec: one request to a query endpoint, from its arrival to its response *)
(***************************************************************************)
\* what the resolver can resolve to
FileHelloTxt ==
    [filename |-> S_hello_txt, contentType |-> S_text_plain, size |-> 5,
     content |-> <<72, 101, 108, 108, 111>>, checksum |-> 12345,
     backLinks |-> <<[index |-> 0, checksum |-> 1]>>]
FileHelloPng ==
    [filename |-> S_image_png_name, contentType |-> S_image_png, size |-> 5,
     content |-> <<72, 101, 108, 108, 111>>, checksum |-> 0, backLinks |-> <<>>]
FileBinary ==
    [filename |-> S_data_bin, contentType |-> S_application_octet_stream, size |-> 3,
     content |-> <<0, 255, 10>>, checksum |-> 7]
FileEmpty ==
    [filename |-> S_empty_txt, contentType |-> S_text_plain, size |-> 0,
     content |-> <<>>, checksum |-> 1, backLinks |-> <<>>]
FileNoContent ==
    [filename |-> S_nocontent_txt, contentType |-> S_text_plain, size |-> 0,
     checksum |-> 1]
\* a file whose name is not in the Latin-1 range
FileUnicodeName ==
    [filename |-> S_unicode_txt, contentType |-> S_text_plain, size |-> 5,
     content |-> <<72, 101, 108, 108, 111>>, checksum |-> 9, backLinks |-> <<>>]
ResolverFiles ==
    {FileHelloTxt, FileHelloPng, FileBinary, FileEmpty, FileNoContent, FileUnicodeName,
     NullData}

\* what the resolver can reject with.  A connectivity failure is one the
\* catch block of getFileContent recognises as such: its message holds
\* "network"
ConnectivityErrors == {PlainError(S_NetworkRequestFailed)}
ResolverErrors ==
    ConnectivityErrors \cup
    {PlainError(S_CellNotFound), PlainError(S_FailedToDecode),
     PlainError(S_UnexpectedFailure), PlainError(S_FetchFailed)}

\* the fetches of a batch run concurrently: their resolver's answers are
\* drawn from one file and one error
BatchResolverFiles == {FileHelloTxt}
BatchResolverErrors == {PlainError(S_CellNotFound)}
FilesFor(endpoint) == IF endpoint = "batch" THEN BatchResolverFiles ELSE ResolverFiles
ErrorsFor(endpoint) == IF endpoint = "batch" THEN BatchResolverErrors ELSE ResolverErrors

\* the error the timeout promise of withRetry rejects with
TimeoutError == PlainError(S_OperationTimeout)

\* the URIs of the requests: one of each accepted form, and three that are
\* not accepted
ValidUris ==
    {CkbfsScheme \o Rep("a", HashLen) \o <<"i", "0">>,
     CkbfsScheme \o Rep("B", HashLen),
     HexPrefix \o Rep("c", HashLen),
     Rep("d", HashLen)}
InvalidUris ==
    {<<"i", "n", "v", "a", "l", "i", "d", ":", "/", "/">> \o Rep("a", HashLen),
     CkbfsScheme \o Rep("a", HashLen - 1),
     CkbfsScheme \o Rep("a", HashLen) \o <<"i">>}

\* a query parameter that is absent, or has one of the values
Optional(key, values) == {EmptyRecord} \cup {[k \in {key} |-> v] : v \in values}

QueryEndpoints == {"ckbfs", "metadata", "validate", "compatible", "parse"}

Queries ==
    {Merge(Merge(Merge(Merge(u, n), f), c), m) :
        u \in Optional("uri", ValidUris \cup InvalidUris),
        n \in Optional("network", {S_mainnet, S_devnet}),
        f \in Optional("format", {"raw", "xml"}),
        c \in Optional("includeContent", {"false", "maybe"}),
        m \in Optional("includeMetadata", {"false"})}

\* a request carries only the parameters its endpoint reads, and one
\* unknown to it (format on the endpoints other than ckbfs)
Requests ==
    {[endpoint |-> "ckbfs", query |-> q] : q \in Queries} \cup
    {[endpoint |-> e, query |-> q] :
        e \in QueryEndpoints \ {"ckbfs"},
        q \in {r \in Queries : DOMAIN r \subseteq {"uri", "network", "format"}
                               /\ ("format" \in DOMAIN r => r.format = "raw")}} \cup
    {[endpoint |-> "health", query |-> EmptyRecord]}

Init ==
    /\ req \in Requests
    /\ pc = "received"
    /\ fetches = <<>>
    /\ res = <<>>
    /\ arg = NoArg
    /\ out = NoOut

\* validateQuery: the schema reports an error, and the middleware answers
RejectQuery ==
    /\ pc = "received"
    /\ req.endpoint \in QueryEndpoints
    /\ ValidationErrors(req.endpoint, req.query) # <<>>
    /\ res' = Append(res, QueryValidationFailure(req.endpoint, req.query))
    /\ pc' = "done"
    /\ UNCHANGED <<req, fetches, arg, out>>

\* validateQuery passes the request on with req.query replaced, and the
\* handler runs up to its await
Accepted(endpoint) ==
    /\ pc = "received"
    /\ req.endpoint = endpoint
    /\ ValidationErrors(req.endpoint, req.query) = <<>>
    /\ req' = [req EXCEPT !.query = ValidatedQuery(req.endpoint, req.query)]

BeginGetFileByURI ==
    /\ Accepted("ckbfs")
    /\ LET query == req'.query
       IN  fetches' = <<IF query.format = "raw"
                         THEN StartFetch("raw", query.uri, query.network, TRUE)
                         ELSE StartFetch("json", query.uri, query.network,
                                         query.includeContent)>>
    /\ pc' = "awaiting"
    /\ UNCHANGED <<res, arg, out>>

\* getFileMetadata of the service: getFileContent(uri, network, false)
BeginGetFileMetadata ==
    /\ Accepted("metadata")
    /\ fetches' = <<StartFetch("json", req'.query.uri, req'.query.network, FALSE)>>
    /\ pc' = "awaiting"
    /\ UNCHANGED <<res, arg, out>>

\* validateURI of the service awaits getFileMetadata
BeginValidateURI ==
    /\ Accepted("validate")
    /\ fetches' = <<StartFetch("json", req'.query.uri, req'.query.network, FALSE)>>
    /\ pc' = "awaiting"
    /\ UNCHANGED <<res, arg, out>>

BeginGetFileCompatible ==
    /\ Accepted("compatible")
    /\ fetches' = <<StartFetch("raw", req'.query.uri, req'.query.network, TRUE)>>
    /\ pc' = "awaiting"
    /\ UNCHANGED <<res, arg, out>>

\* the parse handler has no await: it answers in the same step
ParseURIRequest ==
    /\ Accepted("parse")
    /\ res' = Append(res, parseURIHandler(req'.query))
    /\ pc' = "done"
    /\ UNCHANGED <<fetches, arg, out>>

\* the health route has no validation; getHealthStatus starts the probes of
\* the two networks, whose settlements out holds
BeginGetServiceHealth ==
    /\ pc = "received"
    /\ req.endpoint = "health"
    /\ out' = [testnet |-> "pending", mainnet |-> "pending"]
    /\ pc' = "awaiting"
    /\ UNCHANGED <<req, fetches, res, arg>>

\* getTipHeader of one network's client resolves or rejects
ProbeSettles(network) ==
    /\ pc = "awaiting"
    /\ req.endpoint = "health"
    /\ out[network] = "pending"
    /\ \E status \in {"fulfilled", "rejected"} : out' = [out EXCEPT ![network] = status]
    /\ UNCHANGED <<req, pc, fetches, res, arg>>

\* fetch i becomes g: if that settles it, it is the next of the request's
\* fetches to settle
Step(i, g) ==
    LET settled == {j \in DOMAIN fetches : fetches[j].pc = "settled"}
    IN  fetches' = [fetches EXCEPT ![i] =
                       IF g.pc = "settled"
                       THEN [g EXCEPT !.settledAt = Cardinality(settled) + 1]
                       ELSE g]

\* the resolver's promise of fetch i resolves while its attempt is raced
ResolverResolves(i) ==
    /\ pc = "awaiting"
    /\ fetches[i].pc = "race"
    /\ \E fileData \in FilesFor(req.endpoint) : Step(i, AttemptResolved(fetches[i], fileData))
    /\ UNCHANGED <<req, pc, res, arg, out>>

\* the resolver's promise of fetch i rejects while its attempt is raced
ResolverRejects(i) ==
    /\ pc = "awaiting"
    /\ fetches[i].pc = "race"
    /\ \E error \in ErrorsFor(req.endpoint) : Step(i, AttemptFailed(fetches[i], error, FALSE))
    /\ UNCHANGED <<req, pc, res, arg, out>>

\* the timeout of the attempt of fetch i fires before the resolver settles
TimeoutFires(i) ==
    /\ pc = "awaiting"
    /\ fetches[i].pc = "race"
    /\ Step(i, AttemptFailed(fetches[i], TimeoutError, TRUE))
    /\ UNCHANGED <<req, pc, res, arg, out>>

\* the delay before the next attempt of fetch i elapses
BackoffElapses(i) ==
    /\ pc = "awaiting"
    /\ fetches[i].pc = "backoff"
    /\ Step(i, BackoffElapsed(fetches[i]))
    /\ UNCHANGED <<req, pc, res, arg, out>>

\* the handler resumes after its await and answers
Settled(endpoint) ==
    /\ pc = "awaiting"
    /\ req.endpoint = endpoint
    /\ fetches[1].pc = "settled"

Answer(response) ==
    /\ res' = Append(res, response)
    /\ pc' = "done"
    /\ UNCHANGED <<req, fetches, arg, out>>

EndGetFileByURI ==
    Settled("ckbfs") /\ Answer(getFileByURI(req.query, fetches[1].settle))

EndGetFileMetadata ==
    Settled("metadata") /\ Answer(getFileMetadata(req.query, fetches[1].settle))

EndValidateURI ==
    Settled("validate") /\ Answer(validateURI(req.query, fetches[1].settle))

EndGetFileCompatible ==
    Settled("compatible") /\ Answer(getFileCompatible(req.query, fetches[1].settle))

\* Promise.allSettled resumes getHealthStatus once both probes have settled
EndGetServiceHealth ==
    /\ pc = "awaiting"
    /\ req.endpoint = "health"
    /\ out.testnet # "pending" /\ out.mainnet # "pending"
    /\ Answer(getServiceHealth(getHealthStatus(out)))

Next ==
    \/ RejectQuery
    \/ BeginGetFileByURI
    \/ BeginGetFileMetadata
    \/ BeginValidateURI
    \/ BeginGetFileCompatible
    \/ ParseURIRequest
    \/ \E i \in DOMAIN fetches :
          \/ ResolverResolves(i)
          \/ ResolverRejects(i)
          \/ TimeoutFires(i)
          \/ BackoffElapses(i)
    \/ EndGetFileByURI
    \/ EndGetFileMetadata
    \/ EndValidateURI
    \/ EndGetFileCompatible
    \/ BeginGetServiceHealth
    \/ \E network \in {"testnet", "mainnet"} : ProbeSettles(network)
    \/ EndGetServiceHealth

Spec == Init /\ [][Next]_vars

\* the endpoints that fetch a file and pass a failure on: GET /ckbfs (json
\* or raw), /ckbfs/metadata, /ckbfs/compatible
FileEndpoints == {"ckbfs", "metadata", "compatible"}

\* the request was accepted, its one fetch was made, and it is answered
Answered == pc = "done" /\ Len(fetches) = 1 /\ Len(res) = 1

\* the fetch was failed by withRetry giving up, every attempt having timed out
AllAttemptsTimedOut(f) ==
    f.pc = "settled" /\ f.allTimedOut /\ f.lastError = TimeoutError

\* C1: a fetch whose every attempt exceeds the timeout invokes the resolver
\* exactly RetryAttempts times before it fails, and no fetch ever invokes it
\* more often than that.
C1_AllTimeoutsInvokeResolverMaxAttemptsTimes ==
    \A i \in DOMAIN fetches :
        /\ fetches[i].calls <= RetryAttempts
        /\ AllAttemptsTimedOut(fetches[i]) => fetches[i].calls = RetryAttempts

C1_Witness ==
    /\ Len(fetches) = 1
    /\ AllAttemptsTimedOut(fetches[1])
    /\ fetches[1].settle.status = "rejected"
    /\ fetches[1].calls = RetryAttempts

\* C2: when every attempt of the fetch timed out, the request to a file
\* endpoint is answered with status 504 and error code TIMEOUT_ERROR.
C2_AllTimeoutsAnswer504 ==
    (Answered /\ req.endpoint \in FileEndpoints /\ AllAttemptsTimedOut(fetches[1]))
        => /\ res[1].status = HttpStatus.GATEWAY_TIMEOUT
           /\ res[1].body.error.code = "TIMEOUT_ERROR"

\* the request asked for the content of the file (GET /ckbfs as raw, or as
\* json without includeContent=false, or /ckbfs/compatible)
AsksForContent ==
    \/ req.endpoint = "compatible"
    \/ req.endpoint = "ckbfs" /\ (req.query.format = "raw" \/ req.query.includeContent)

\* C3: when the resolver succeeded with an empty (zero bytes) or missing
\* content, the request for the content in the JSON, raw or compatible shape
\* is answered with status 404 and error code FILE_NOT_FOUND.
C3_EmptyOrMissingContentAnswers404 ==
    (Answered /\ AsksForContent /\ fetches[1].fileData \in {FileEmpty, FileNoContent})
        => /\ res[1].status = HttpStatus.NOT_FOUND
           /\ res[1].body.error.code = "FILE_NOT_FOUND"

\* the sixteen lowercase hexadecimal digits, and the value of one
LowerHex ==
    <<"0", "1", "2", "3", "4", "5", "6", "7", "8", "9", "a", "b", "c", "d", "e", "f">>
IsLowerHex(c) == \E v \in 1..16 : LowerHex[v] = c
HexValue(c) == (CHOOSE v \in 1..16 : LowerHex[v] = c) - 1

\* the text is the lowercase hex encoding of the bytes: two digits per byte,
\* in order
IsHexOf(text, bytes) ==
    /\ Len(text) = 2 * Len(bytes)
    /\ \A k \in 1..Len(text) : IsLowerHex(text[k])
    /\ \A k \in 1..Len(bytes) :
           16 * HexValue(text[2 * k - 1]) + HexValue(text[2 * k]) = bytes[k]

\* the /ckbfs/compatible request was answered with a file
CompatibleAnswered ==
    Answered /\ req.endpoint = "compatible" /\ fetches[1].settle.status = "fulfilled"

\* C6: the content field of the compatible endpoint's answer is the
\* lowercase hex encoding of the bytes the resolver returned, whatever the
\* declared type and filename; the bytes of "Hello" give "48656c6c6f".
C6_CompatibleContentIsLowercaseHex ==
    CompatibleAnswered =>
        /\ res[1].status = HttpStatus.OK
        /\ IsHexOf(res[1].body.content, fetches[1].fileData.content)
        /\ fetches[1].fileData.content = <<72, 101, 108, 108, 111>>
               => res[1].body.content
                      = <<"4", "8", "6", "5", "6", "c", "6", "c", "6", "f">>

C6_Witness ==
    /\ CompatibleAnswered
    /\ fetches[1].fileData = FileHelloPng
    /\ res[1].body.content_type = S_image_png
    /\ res[1].body.content = <<"4", "8", "6", "5", "6", "c", "6", "c", "6", "f">>

\* the fetch was failed by withRetry giving up after RetryAttempts attempts,
\* the last of them failed by a connectivity error
FailedByConnectivity(f) ==
    /\ f.pc = "settled"
    /\ f.calls = RetryAttempts
    /\ f.fileData = NoFileData
    /\ f.settle.status = "rejected"
    /\ f.lastError \in ConnectivityErrors

\* C8: a fetch failed by connectivity after all retries is answered with
\* status 502 and error code NETWORK_ERROR on every file endpoint.
C8_ConnectivityFailureAnswers502 ==
    (Answered /\ req.endpoint \in FileEndpoints /\ FailedByConnectivity(fetches[1]))
        => /\ res[1].status = HttpStatus.BAD_GATEWAY
           /\ res[1].body.error.code = "NETWORK_ERROR"

\* C9: a request whose uri has none of the four accepted forms is answered
\* with status 400 and error code INVALID_URI, and no fetch is made for it.
C9_InvalidUriAnswers400InvalidUri ==
    (pc = "done" /\ "uri" \in DOMAIN req.query /\ ~uriSchema(req.query.uri))
        => /\ fetches = <<>>
           /\ Len(res) = 1
           /\ res[1].status = HttpStatus.BAD_REQUEST
           /\ res[1].body.error.code = "INVALID_URI"

(***************************************************************************)
(* SpecBatch: one request to POST /ckbfs/batch                             *)
(***************************************************************************)
\* the longest list of uris of a request that is fetched
MaxBatch == 3

\* the list of the first n of the accepted URIs, taken in turn
UriCycle ==
    <<CkbfsScheme \o Rep("a", HashLen) \o <<"i", "0">>,
      CkbfsScheme \o Rep("B", HashLen),
      HexPrefix \o Rep("c", HashLen),
      Rep("d", HashLen)>>
UriList(n) == [i \in 1..n |-> UriCycle[((i - 1) % Len(UriCycle)) + 1]]

BatchOptions ==
    {Merge(Merge(Merge(n, f), c), m) :
        n \in Optional("network", {S_mainnet, S_devnet}),
        f \in Optional("format", {"raw", "xml"}),
        c \in Optional("includeContent", {"false", "maybe"}),
        m \in Optional("includeMetadata", {"false"})}

\* the bodies: lists of every length up to MaxBatch with the defaults, the
\* one-item list with every choice of options, a list over the limit, a
\* list with an item that is not accepted, and a body without uris
BatchBodies ==
    {[uris |-> UriList(n)] : n \in 0..MaxBatch} \cup
    {Merge([uris |-> UriList(1)], o) : o \in BatchOptions} \cup
    {[uris |-> UriList(MaxUris + 1)],
     [uris |-> <<UriCycle[1], CkbfsScheme \o Rep("a", HashLen - 1)>>],
     EmptyRecord}

InitBatch ==
    /\ req \in {[endpoint |-> "batch", body |-> b] : b \in BatchBodies}
    /\ pc = "received"
    /\ fetches = <<>>
    /\ res = <<>>
    /\ arg = NoArg
    /\ out = NoOut

\* validateBody: the schema reports an error, and the middleware answers
RejectBody ==
    /\ pc = "received"
    /\ req.endpoint = "batch"
    /\ ValidationErrors(req.endpoint, req.body) # <<>>
    /\ res' = Append(res, BodyValidationFailure(req.endpoint, req.body))
    /\ pc' = "done"
    /\ UNCHANGED <<req, fetches, arg, out>>

\* validateBody passes the request on with req.body replaced
AcceptedBody ==
    /\ pc = "received"
    /\ req.endpoint = "batch"
    /\ ValidationErrors(req.endpoint, req.body) = <<>>
    /\ req' = [req EXCEPT !.body = ValidatedQuery(req.endpoint, req.body)]

\* batchGetFiles answers a raw request itself
RejectRawBatch ==
    /\ AcceptedBody
    /\ req'.body.format = "raw"
    /\ res' = Append(res, BatchRawNotSupported)
    /\ pc' = "done"
    /\ UNCHANGED <<fetches, arg, out>>

\* a mutant of BeginBatchGetFiles: the fetches are made one after the other,
\* so only the first has been started when the handler first awaits
BeginBatchGetFiles_oneAtATime ==
    /\ AcceptedBody
    /\ req'.body.format # "raw"
    /\ LET body == req'.body
       IN  /\ validateNetwork(body.network).ok
           /\ fetches' = <<StartFetch("json", body.uris[1], validateNetwork(body.network).value,
                                      body.includeContent)>>
    /\ pc' = "awaiting"
    /\ UNCHANGED <<res, arg, out>>

\* batchGetFiles up to its await: getMultipleFiles validates the network
\* and calls getFileContent for every uri
BeginBatchGetFiles ==
    /\ AcceptedBody
    /\ req'.body.format # "raw"
    /\ LET body == req'.body
           validated == validateNetwork(body.network)
       IN  IF validated.ok
           THEN /\ fetches' = [i \in 1..Len(body.uris) |->
                                  StartFetch("json", body.uris[i], validated.value,
                                             body.includeContent)]
                /\ pc' = "awaiting"
                /\ res' = res
           ELSE /\ fetches' = fetches
                /\ pc' = "done"
                /\ res' = Append(res, RouteError(validated.error))
    /\ UNCHANGED <<arg, out>>

\* every getFileContent has settled: batchGetFiles resumes and answers
EndBatchGetFiles ==
    /\ pc = "awaiting"
    /\ req.endpoint = "batch"
    /\ \A i \in DOMAIN fetches : fetches[i].pc = "settled"
    /\ Answer(batchGetFiles(req.body, getMultipleFiles(req.body.uris, fetches)))

NextBatch ==
    \/ RejectBody
    \/ RejectRawBatch
    \/ BeginBatchGetFiles
    \/ \E i \in DOMAIN fetches :
          \/ ResolverResolves(i)
          \/ ResolverRejects(i)
          \/ TimeoutFires(i)
          \/ BackoffElapses(i)
    \/ EndBatchGetFiles

SpecBatch == InitBatch /\ [][NextBatch]_vars

\* the batch request was accepted, its fetches were made, and it is answered
BatchAnswered ==
    /\ pc = "done"
    /\ req.endpoint = "batch"
    /\ Len(res) = 1
    /\ Len(fetches) > 0

\* the entry belongs to fetch i: it is the file response of the fetch's own
\* uri if the fetch succeeded, and the error entry of that uri with the
\* fetch's own failure if it failed
BelongsTo(entry, i) ==
    /\ entry.uri = req.body.uris[i]
    /\ entry.uri = fetches[i].uri
    /\ IF fetches[i].settle.status = "fulfilled"
       THEN /\ "error" \notin DOMAIN entry
            /\ entry.filename = fetches[i].fileData.filename
       ELSE /\ "error" \in DOMAIN entry
            /\ entry.error = fetches[i].settle.reason.message

\* C4: the result list of a batch has the length of uris, and result i
\* belongs to uris[i], in whatever order the fetches settled and whichever
\* of them failed.
C4_BatchResultsInRequestOrder ==
    BatchAnswered =>
        LET results == res[1].body.data.results
        IN  /\ Len(results) = Len(req.body.uris)
            /\ \A i \in 1..Len(results) : BelongsTo(results[i], i)

\* three uris; the second fetch failed and settled first, the first settled
\* last
C4_Witness ==
    /\ BatchAnswered
    /\ Len(req.body.uris) = 3
    /\ fetches[1].settle.status = "fulfilled" /\ fetches[1].settledAt = 3
    /\ fetches[2].settle.status = "rejected" /\ fetches[2].settledAt = 1
    /\ fetches[3].settle.status = "fulfilled" /\ fetches[3].settledAt = 2
    /\ Len(res[1].body.data.results) = 3
    /\ "error" \in DOMAIN res[1].body.data.results[2]

\* what GET /ckbfs answers as data for the same file response and flags
SingleFileData(body, value) == JsonResponse(body, value).body.data

\* C5: a batch whose fetches settled is answered 200 with success true
\* whichever of them failed; a failed item is the entry {uri, error} in its
\* own slot, and an item that succeeded is the file response a request for
\* it alone is answered with.
C5_BatchNeverAbortedByItemFailure ==
    BatchAnswered =>
        /\ res[1].status = HttpStatus.OK
        /\ res[1].body.success = TRUE
        /\ LET data == res[1].body.data
           IN  /\ data.total = Len(req.body.uris)
               /\ data.failed = Cardinality({i \in DOMAIN fetches :
                                      fetches[i].settle.status = "rejected"})
               /\ data.successful = data.total - data.failed
               /\ \A i \in DOMAIN fetches :
                      IF fetches[i].settle.status = "rejected"
                      THEN data.results[i]
                               = [uri |-> req.body.uris[i],
                                  error |-> fetches[i].settle.reason.message]
                      ELSE data.results[i]
                               = SingleFileData(req.body, fetches[i].settle.value)

\* every fetch but the last failed
C5_Witness ==
    /\ BatchAnswered
    /\ Len(fetches) = 3
    /\ fetches[1].settle.status = "rejected"
    /\ fetches[2].settle.status = "rejected"
    /\ fetches[3].settle.status = "fulfilled"
    /\ res[1].status = HttpStatus.OK
    /\ res[1].body.data.failed = 2
    /\ "content" \in DOMAIN res[1].body.data.results[3]

(***************************************************************************)
(* SpecEncode: shouldTreatAsText and convertContentToString applied to a   *)
(* content, a declared type and a filename                                 *)
(***************************************************************************)
\* "application/json"
S_application_json ==
    <<"a", "p", "p", "l", "i", "c", "a", "t", "i", "o", "n", "/", "j", "s", "o", "n">>

\* "image/svg+xml"
S_image_svg_xml ==
    <<"i", "m", "a", "g", "e", "/", "s", "v", "g", "+", "x", "m", "l">>

\* "TEXT/PLAIN; charset=utf-8"
S_TextPlainCharset ==
    <<"T", "E", "X", "T", "/", "P", "L", "A", "I", "N", ";", " ", "c", "h", "a", "r", "s", "e",
      "t", "=", "u", "t", "f", "-", "8">>

\* "application/json ; charset=utf-8"
S_JsonSpaceCharset ==
    <<"a", "p", "p", "l", "i", "c", "a", "t", "i", "o", "n", "/", "j", "s", "o", "n", " ", ";",
      " ", "c", "h", "a", "r", "s", "e", "t", "=", "u", "t", "f", "-", "8">>

\* " text/plain"
S_SpaceTextPlain ==
    <<" ", "t", "e", "x", "t", "/", "p", "l", "a", "i", "n">>

\* "application/vnd.api+json"
S_vnd_api_json ==
    <<"a", "p", "p", "l", "i", "c", "a", "t", "i", "o", "n", "/", "v", "n", "d", ".", "a", "p",
      "i", "+", "j", "s", "o", "n">>

\* "text/x-custom"
S_text_x_custom ==
    <<"t", "e", "x", "t", "/", "x", "-", "c", "u", "s", "t", "o", "m">>

\* "application/x+yaml"
S_x_yaml ==
    <<"a", "p", "p", "l", "i", "c", "a", "t", "i", "o", "n", "/", "x", "+", "y", "a", "m", "l">>

\* "application/x+toml"
S_x_toml ==
    <<"a", "p", "p", "l", "i", "c", "a", "t", "i", "o", "n", "/", "x", "+", "t", "o", "m", "l">>

\* "Application/Octet-Stream"
S_UpperOctetStream ==
    <<"A", "p", "p", "l", "i", "c", "a", "t", "i", "o", "n", "/", "O", "c", "t", "e", "t", "-",
      "S", "t", "r", "e", "a", "m">>

\* "application/octet-stream; charset=binary"
S_OctetStreamCharset ==
    <<"a", "p", "p", "l", "i", "c", "a", "t", "i", "o", "n", "/", "o", "c", "t", "e", "t", "-",
      "s", "t", "r", "e", "a", "m", ";", " ", "c", "h", "a", "r", "s", "e", "t", "=", "b", "i",
      "n", "a", "r", "y">>

\* "application/xml+"
S_xml_plus ==
    <<"a", "p", "p", "l", "i", "c", "a", "t", "i", "o", "n", "/", "x", "m", "l", "+">>

\* "xtext/plain"
S_xtext ==
    <<"x", "t", "e", "x", "t", "/", "p", "l", "a", "i", "n">>

\* ";"
S_Semicolon ==
    <<";">>

\* " "
S_Space ==
    <<" ">>

\* "video/mp4"
S_video_mp4 ==
    <<"v", "i", "d", "e", "o", "/", "m", "p", "4">>

\* "notes.md"
S_notes_md ==
    <<"n", "o", "t", "e", "s", ".", "m", "d">>

\* "binary.exe"
S_binary_exe ==
    <<"b", "i", "n", "a", "r", "y", ".", "e", "x", "e">>

\* "README"
S_README ==
    <<"R", "E", "A", "D", "M", "E">>

\* "NOTES.MD"
S_NOTES_MD ==
    <<"N", "O", "T", "E", "S", ".", "M", "D">>

\* "archive.tar.gz"
S_archive_tar_gz ==
    <<"a", "r", "c", "h", "i", "v", "e", ".", "t", "a", "r", ".", "g", "z">>

\* "notes."
S_notes_dot ==
    <<"n", "o", "t", "e", "s", ".">>

\* ".gitignore"
S_gitignore ==
    <<".", "g", "i", "t", "i", "g", "n", "o", "r", "e">>

\* "md.txt.exe"
S_md_txt_exe ==
    <<"m", "d", ".", "t", "x", "t", ".", "e", "x", "e">>


\* declared types: the empty sequence is a missing type
MimeSamples ==
    {<<>>, S_text_plain, S_image_png, S_application_octet_stream, S_binary_octet_stream,
     S_application_unknown, S_application_json, S_image_svg_xml, S_TextPlainCharset, S_JsonSpaceCharset, S_SpaceTextPlain, S_vnd_api_json,
     S_text_x_custom, S_x_yaml, S_x_toml, S_UpperOctetStream, S_OctetStreamCharset, S_xml_plus,
     S_xtext, S_Semicolon, S_Space, S_video_mp4}

\* filenames: the empty sequence is no filename
FilenameSamples ==
    {<<>>, S_hello_txt, S_notes_md, S_binary_exe, S_README, S_NOTES_MD, S_archive_tar_gz, S_notes_dot, S_gitignore, S_md_txt_exe}

\* contents that are well-formed UTF-8 and hold no U+FFFD: empty, "Hello",
\* and one character of two, three and four bytes
DecodableContents ==
    {<<>>, <<72, 101, 108, 108, 111>>, <<195, 169>>, <<226, 130, 172>>,
     <<240, 159, 152, 128>>, <<72, 195, 169, 10>>}

\* contents that are not well-formed UTF-8 (a stray byte, a truncated
\* sequence, an overlong form, an encoded surrogate, a value over U+10FFFF),
\* and contents that encode U+FFFD itself
UndecodableContents ==
    {<<255>>, <<0, 255, 10>>, <<195>>, <<72, 226, 130>>, <<192, 128>>,
     <<237, 160, 128>>, <<244, 144, 128, 128>>, <<128>>,
     <<239, 191, 189>>, <<72, 105, 239, 191, 189>>}

EncodeInputs ==
    [content : DecodableContents \cup UndecodableContents,
     contentType : MimeSamples, filename : FilenameSamples]

InitEncode ==
    /\ arg \in EncodeInputs
    /\ out = NoOut
    /\ pc = "input"
    /\ req = NoRequest
    /\ fetches = <<>>
    /\ res = <<>>

\* shouldTreatAsText(contentType, filename)
ApplyShouldTreatAsText ==
    /\ pc = "input"
    /\ arg \in EncodeInputs
    /\ out' = [isText |-> shouldTreatAsText(arg.contentType, arg.filename)]
    /\ pc' = "classified"
    /\ UNCHANGED <<req, fetches, res, arg>>

\* convertContentToString(content, contentType, filename)
ApplyConvertContentToString ==
    /\ pc = "input"
    /\ arg \in EncodeInputs
    /\ out' = convertContentToString(arg.content, arg.contentType, arg.filename)
    /\ pc' = "converted"
    /\ UNCHANGED <<req, fetches, res, arg>>

NextEncode == ApplyShouldTreatAsText \/ ApplyConvertContentToString

SpecEncode == InitEncode /\ [][NextEncode]_vars

\* the UTF-8 bytes of a string of UTF-16 code units without lone surrogates
RECURSIVE Utf8Bytes(_)
Utf8Bytes(text) ==
    IF text = <<>> THEN <<>>
    ELSE LET u == text[1]
         IN  IF u < 128 THEN <<u>> \o Utf8Bytes(Tail(text))
             ELSE IF u < 2048
             THEN <<192 + (u \div 64), 128 + (u % 64)>> \o Utf8Bytes(Tail(text))
             ELSE IF u \in 55296..56319 /\ Len(text) >= 2
             THEN LET cp == 65536 + (u - 55296) * 1024 + (text[2] - 56320)
                  IN  <<240 + (cp \div 262144), 128 + ((cp \div 4096) % 64),
                        128 + ((cp \div 64) % 64), 128 + (cp % 64)>>
                      \o Utf8Bytes(SubSeq(text, 3, Len(text)))
             ELSE <<224 + (u \div 4096), 128 + ((u \div 64) % 64), 128 + (u % 64)>>
                  \o Utf8Bytes(Tail(text))

\* the value of a character of the base64 alphabet
Base64Value(c) ==
    IF c \in 65..90 THEN c - 65
    ELSE IF c \in 97..122 THEN c - 97 + 26
    ELSE IF c \in 48..57 THEN c - 48 + 52
    ELSE IF c = 43 THEN 62 ELSE 63

\* the bytes a padded base64 text stands for
RECURSIVE Base64Bytes(_)
Base64Bytes(t) ==
    IF Len(t) < 4 THEN <<>>
    ELSE LET a == Base64Value(t[1])
             b == Base64Value(t[2])
             c == Base64Value(t[3])
             d == Base64Value(t[4])
             rest == Base64Bytes(SubSeq(t, 5, Len(t)))
         IN  IF t[3] = 61 THEN <<a * 4 + (b \div 16)>>
             ELSE IF t[4] = 61 THEN <<a * 4 + (b \div 16), (b % 16) * 16 + (c \div 4)>>
             ELSE <<a * 4 + (b \div 16), (b % 16) * 16 + (c \div 4), (c % 4) * 64 + d>> \o rest

IsBase64Text(t) ==
    /\ Len(t) % 4 = 0
    /\ \A i \in 1..Len(t) :
          \/ t[i] \in (65..90) \cup (97..122) \cup (48..57) \cup {43, 47}
          \/ t[i] = 61 /\ i > Len(t) - 2 /\ (i = Len(t) \/ t[Len(t)] = 61)

\* C12: convertContentToString answers the UTF-8 text with encoding "utf8"
\* and isText true exactly when the content is classified as text and its
\* decoded string holds no U+FFFD; in every other case (not classified as
\* text, or malformed, or validly encoding U+FFFD) it answers the base64
\* text with encoding "base64" and isText false; isText holds exactly when
\* the encoding is "utf8".
C12_TextIffClassifiedAndDecodable ==
    pc = "converted" =>
        /\ out.isText = (out.encoding = "utf8")
        /\ out.encoding \in {"utf8", "base64"}
        /\ out.isText = (/\ shouldTreatAsText(arg.contentType, arg.filename)
                         /\ arg.content \in DecodableContents)
        /\ out.isText =>
              /\ Utf8Bytes(out.content) = arg.content
              /\ \A i \in 1..Len(out.content) : out.content[i] # 65533
        /\ ~out.isText =>
              /\ IsBase64Text(out.content)
              /\ Base64Bytes(out.content) = arg.content

\* a text/plain content that validly encodes U+FFFD is answered as base64
C12_Witness ==
    /\ pc = "converted"
    /\ arg.contentType = S_text_plain
    /\ arg.content = <<72, 105, 239, 191, 189>>
    /\ out.encoding = "base64"
    /\ ~out.isText

\* a normalized type is textual: in the allow-list, or beginning "text/", or
\* ending "+xml", "+json", "+yaml" or "+toml"
IsTextualType(t) ==
    \/ t \in TEXT_CONTENT_TYPES
    \/ StartsWith(t, S_text_slash)
    \/ \E suffix \in {S_plus_xml, S_plus_json, S_plus_yaml, S_plus_toml} : EndsWith(t, suffix)

\* the declared types the text names, with their classification
NamedTypeExamples ==
    /\ arg.contentType \in {S_text_plain, S_application_json, S_image_svg_xml} => out.isText
    /\ arg.contentType \in {S_image_png, S_application_octet_stream, <<>>} => ~out.isText

\* C13 as stated: with no filename, the classification is true exactly when
\* the declared type, lower-cased and truncated at the first ";", is in the
\* allow-list or begins "text/" or ends "+xml", "+json", "+yaml" or "+toml".
C13_ClassifiedByTruncatedLowercaseType ==
    (pc = "classified" /\ arg.filename = <<>>) =>
        /\ out.isText = IsTextualType(BeforeFirst(toLowerCase(arg.contentType), ";"))
        /\ NamedTypeExamples

\* C13 amended: with no filename, the classification is true exactly when
\* the declared type, lower-cased, truncated at the first ";" and then
\* trimmed of surrounding whitespace, is in the allow-list or begins "text/"
\* or ends "+xml", "+json", "+yaml" or "+toml"; an empty or missing type is
\* false; text/plain, application/json and image/svg+xml are true,
\* image/png and application/octet-stream false.
C13_ClassifiedByTrimmedLowercaseType ==
    (pc = "classified" /\ arg.filename = <<>>) =>
        /\ out.isText = IsTextualType(trim(BeforeFirst(toLowerCase(arg.contentType), ";")))
        /\ NamedTypeExamples

\* an upper-case type with a parameter is classified as text
C13_Witness ==
    /\ pc = "classified"
    /\ arg.filename = <<>>
    /\ arg.contentType = S_TextPlainCharset
    /\ out.isText

\* the declared types that say nothing about the content
SentinelTypes == {S_application_octet_stream, S_binary_octet_stream, S_application_unknown}

\* the sample filenames whose extension (the part after the last ".", the
\* whole name when there is none, in lower case) is a text extension
TextNamedFiles == {S_hello_txt, S_notes_md, S_NOTES_MD, S_README, S_gitignore}

JsonFileAnswered ==
    /\ Answered
    /\ res[1].status = HttpStatus.OK
    /\ \/ req.endpoint = "metadata"
       \/ req.endpoint = "ckbfs" /\ req.query.format = "json"

\* C15: the data of a successful JSON fetch on GET /ckbfs holds "content"
\* whenever includeContent is true and does not hold it when it is false;
\* the data of GET /ckbfs/metadata never holds "content".
C15_ContentPresentIffRequested ==
    JsonFileAnswered =>
        IF req.endpoint = "ckbfs"
        THEN ("content" \in DOMAIN res[1].body.data) = req.query.includeContent
        ELSE "content" \notin DOMAIN res[1].body.data

\* C16: the data of a successful JSON fetch on GET /ckbfs holds none of
\* checksum, backLinks and metadata when includeMetadata is false; when it
\* is true it holds the metadata block, and the checksum and the back-links
\* whenever the resolver supplied them, with the resolver's values (a
\* checksum of 0 and an empty list of back-links included).
C16_MetadataFieldsFollowIncludeMetadata ==
    (JsonFileAnswered /\ req.endpoint = "ckbfs") =>
        LET data == res[1].body.data
            fileData == fetches[1].fileData
        IN  IF req.query.includeMetadata
            THEN /\ "metadata" \in DOMAIN data
                 /\ "checksum" \in DOMAIN fileData =>
                        "checksum" \in DOMAIN data /\ data.checksum = fileData.checksum
                 /\ "backLinks" \in DOMAIN fileData =>
                        "backLinks" \in DOMAIN data /\ data.backLinks = fileData.backLinks
            ELSE DOMAIN data \cap {"checksum", "backLinks", "metadata"} = {}

\* GET /ckbfs/health is answered, both probes having settled
HealthAnswered ==
    /\ pc = "done"
    /\ req.endpoint = "health"
    /\ Len(res) = 1

BothProbesFailed == out.testnet = "rejected" /\ out.mainnet = "rejected"

\* C19: GET /ckbfs/health answers 503 exactly when the probes of both
\* networks failed, and that response carries the error code
\* SERVICE_UNAVAILABLE; when the probe of at least one network succeeded it
\* answers 200 with status healthy and each network up or down as its own
\* probe fared.
C19_HealthAnswers503WithErrorCodeWhenBothDown ==
    HealthAnswered =>
        IF BothProbesFailed
        THEN /\ res[1].status = HttpStatus.SERVICE_UNAVAILABLE
             /\ "error" \in DOMAIN res[1].body
             /\ res[1].body.error.code = "SERVICE_UNAVAILABLE"
        ELSE /\ res[1].status = HttpStatus.OK
             /\ res[1].body.data.status = "healthy"
             /\ \A n \in {"testnet", "mainnet"} :
                    res[1].body.data.networks[n]
                        = IF out[n] = "fulfilled" THEN "up" ELSE "down"

\* the two answers that are not enveloped: the bytes of a raw fetch and the
\* bare object of a successful compatible fetch
IsBareAnswer(r) ==
    \/ r.type = "raw"
    \/ req.endpoint = "compatible" /\ r.status = HttpStatus.OK

\* the body is the standard envelope: success, timestamp and requestId, and
\* data exactly when success is true, error exactly when it is false
IsEnvelope(body) ==
    /\ {"success", "timestamp", "requestId"} \subseteq DOMAIN body
    /\ body.success \in BOOLEAN
    /\ ("data" \in DOMAIN body) = body.success
    /\ ("error" \in DOMAIN body) = ~body.success

RefusedUnfetched(code) ==
    /\ pc = "done"
    /\ fetches = <<>>
    /\ Len(res) = 1
    /\ res[1].status = HttpStatus.BAD_REQUEST
    /\ res[1].body.error.code = code

\* C18: a batch is fetched only when it has between MinUris and MaxUris
\* uris and its format is not raw.  A list of 0 or of more than MaxUris uris
\* is answered 400 MISSING_REQUIRED_FIELD, and a raw format (of a body that
\* is otherwise accepted) 400 INVALID_FORMAT; in both cases no fetch is
\* made.  The lists of MinUris to MaxUris accepted uris are the ones
\* validation lets through.
C18_BatchFetchedOnlyWithinLimitsAndNotRaw ==
    /\ pc = "received" =>
          \A n \in 0..(MaxUris + 1) :
              (ValidationErrors("batch", [uris |-> UriList(n)]) = <<>>)
                  = (n \in MinUris..MaxUris)
    /\ fetches # <<>> =>
          /\ Len(req.body.uris) \in MinUris..MaxUris
          /\ req.body.format # "raw"
    /\ (pc # "received" /\ "uris" \in DOMAIN req.body
          /\ Len(req.body.uris) \notin MinUris..MaxUris)
          => RefusedUnfetched("MISSING_REQUIRED_FIELD")
    /\ (pc # "received" /\ "format" \in DOMAIN req.body /\ req.body.format = "raw")
          => \/ RefusedUnfetched("INVALID_FORMAT")
             \/ /\ RefusedUnfetched("MISSING_REQUIRED_FIELD")
                /\ ValidationErrors("batch", req.body) # <<>>

\* a raw batch of one accepted uri is refused with INVALID_FORMAT
C18_Witness ==
    /\ RefusedUnfetched("INVALID_FORMAT")
    /\ req.body.format = "raw"
    /\ Len(req.body.uris) = 1

\* a request to GET /ckbfs/validate with a well-formed uri and, if it names
\* a network, one of the two networks, is answered
ValidateAnswered ==
    /\ pc = "done"
    /\ req.endpoint = "validate"
    /\ "uri" \in DOMAIN req.query
    /\ uriSchema(req.query.uri)
    /\ "network" \in DOMAIN req.query => req.query.network \in Networks \cup {<<>>}

\* C20: GET /ckbfs/validate with a well-formed uri is answered 200 with
\* success true and a boolean valid, which is true exactly when the fetch of
\* the file succeeded; a failure of the resolver (no data, an error, a
\* timeout) gives valid false and never an error answer; the parsed
\* identifier is included either way.
C20_ValidateAlwaysAnswersBooleanValid ==
    ValidateAnswered =>
        /\ Len(fetches) = 1 /\ Len(res) = 1
        /\ res[1].status = HttpStatus.OK
        /\ res[1].body.success = TRUE
        /\ "error" \notin DOMAIN res[1].body
        /\ res[1].body.data.valid \in BOOLEAN
        /\ res[1].body.data.valid = (fetches[1].settle.status = "fulfilled")
        /\ res[1].body.data.valid =
              (fetches[1].fileData # NoFileData /\ ~IsNull(fetches[1].fileData))
        /\ "parsedId" \in DOMAIN res[1].body.data
        /\ res[1].body.data.parsedId.raw = req.query.uri

\* the fetch failed after every attempt timed out: valid is false, under 200
C20_Witness ==
    /\ ValidateAnswered
    /\ Len(fetches) = 1
    /\ AllAttemptsTimedOut(fetches[1])
    /\ res[1].status = HttpStatus.OK
    /\ res[1].body.data.valid = FALSE
    /\ "parsedId" \in DOMAIN res[1].body.data

(***************************************************************************)
(* SpecNetwork: validateNetwork applied to an argument that is absent or a *)
(* string, by a service configured with either default network            *)
(***************************************************************************)
\* "Mainnet"
S_Mainnet_cap ==
    <<"M", "a", "i", "n", "n", "e", "t">>

\* "TESTNET"
S_TESTNET_upper ==
    <<"T", "E", "S", "T", "N", "E", "T">>

\* "main"
S_main ==
    <<"m", "a", "i", "n">>

\* "invalid"
S_invalid ==
    <<"i", "n", "v", "a", "l", "i", "d">>

\* strings around the two network names: other names, other cases, parts
\* of a name, and a name with a character before or after it
NetworkStrings ==
    {prefix \o base \o suffix :
        prefix \in {<<>>, <<" ">>, <<"x">>},
        base \in {<<>>, S_mainnet, S_testnet, S_devnet, S_Mainnet_cap, S_TESTNET_upper,
                  S_main, S_invalid},
        suffix \in {<<>>, <<" ">>, <<"s">>, <<"1">>}}

\* the argument is absent (no network field) or one of the strings
NetworkInputs ==
    {[defaultNetwork |-> d] : d \in Networks} \cup
    [defaultNetwork : Networks, network : NetworkStrings]

InitNetwork ==
    /\ arg \in NetworkInputs
    /\ out = NoOut
    /\ pc = "input"
    /\ req = NoRequest
    /\ fetches = <<>>
    /\ res = <<>>

\* service.validateNetwork(network), service.validateNetwork()
ApplyValidateNetwork ==
    /\ pc = "input"
    /\ arg \in NetworkInputs
    /\ out' = validateNetworkWith(IF "network" \in DOMAIN arg THEN arg.network ELSE <<>>,
                                  arg.defaultNetwork)
    /\ pc' = "output"
    /\ UNCHANGED <<req, fetches, res, arg>>

NextNetwork == ApplyValidateNetwork

SpecNetwork == InitNetwork /\ [][NextNetwork]_vars

\* the call returned the network
ReturnsNetwork(network) == out.ok /\ out.value = network

\* the call failed with INVALID_NETWORK
FailsInvalidNetwork ==
    ~out.ok /\ IsCKBFSError(out.error) /\ out.error.code = "INVALID_NETWORK"

\* C21 as stated: validateNetwork returns "mainnet" for "mainnet",
\* "testnet" for "testnet", the configured default when the argument is
\* absent, and fails with INVALID_NETWORK for every other value; it never
\* returns a value outside {mainnet, testnet}.
C21_OnlyAbsentArgumentGivesDefault ==
    pc = "output" =>
        /\ out.ok => out.value \in {S_mainnet, S_testnet}
        /\ IF "network" \notin DOMAIN arg THEN ReturnsNetwork(arg.defaultNetwork)
           ELSE IF arg.network \in {S_mainnet, S_testnet} THEN ReturnsNetwork(arg.network)
           ELSE FailsInvalidNetwork

\* C21 amended: validateNetwork returns "mainnet" for "mainnet", "testnet"
\* for "testnet", the configured default when the argument is absent or the
\* empty string, and fails with INVALID_NETWORK for every other value; it
\* never returns a value outside {mainnet, testnet}.
C21_AbsentOrEmptyArgumentGivesDefault ==
    pc = "output" =>
        /\ out.ok => out.value \in {S_mainnet, S_testnet}
        /\ IF "network" \notin DOMAIN arg \/ arg.network = <<>>
           THEN ReturnsNetwork(arg.defaultNetwork)
           ELSE IF arg.network \in {S_mainnet, S_testnet} THEN ReturnsNetwork(arg.network)
           ELSE FailsInvalidNetwork

\* the default of a service configured for mainnet, and a refused name
C21_Witness ==
    /\ pc = "output"
    /\ \/ "network" \notin DOMAIN arg /\ arg.defaultNetwork = S_mainnet
          /\ ReturnsNetwork(S_mainnet)
       \/ "network" \in DOMAIN arg /\ arg.network = S_Mainnet_cap /\ FailsInvalidNetwork

(***************************************************************************)
(* SpecRetry: one request to GET /ckbfs, with a clock and a log of what    *)
(* happened to each attempt of its fetch.  arg holds the clock (the time   *)
(* of the fetch's last event, in milliseconds), the attempts whose         *)
(* resolver call was abandoned by a timeout and is still running, and the  *)
(* attempts whose timer is still set after the resolver settled first.     *)
(* out is the log.  Neither the abandoned call nor the timer is ever       *)
(* cancelled by withRetry.                                                 *)
(***************************************************************************)
\* the most events a log holds
MaxEvents == 12

\* how long the resolver takes when it answers within the timeout
ResolverLatencies == {1, TimeoutMs - 1}

RetryResolverFiles == {FileHelloTxt, FileBinary, NullData}
RetryResolverErrors == {PlainError(S_CellNotFound), PlainError(S_NetworkRequestFailed)}

\* what an abandoned call completes with
LateOutcomes == {Fulfilled(FileBinary), Rejected(PlainError(S_CellNotFound))}

RetryRequests ==
    {[endpoint |-> "ckbfs", query |-> Merge([uri |-> Rep("d", HashLen)], f)] :
        f \in Optional("format", {"raw"})}

Event(event, attempt, at, outcome) ==
    [event |-> event, attempt |-> attempt, at |-> at, outcome |-> outcome]

InitRetry ==
    /\ req \in RetryRequests
    /\ pc = "received"
    /\ fetches = <<>>
    /\ res = <<>>
    /\ arg = [now |-> 0, abandoned |-> {}, timers |-> {}]
    /\ out = <<>>

\* the fetch went from f to g at the time: the events are logged, and the
\* invocation of the resolver if g made one
Logged(f, g, events, time) ==
    /\ Len(out) < MaxEvents
    /\ out' = out \o events \o
                 (IF g.calls > f.calls
                  THEN <<Event("call", g.attempt, time, Pending)>> ELSE <<>>)

\* getFileByURI up to its await, as BeginGetFileByURI
RetryBegin ==
    /\ Accepted("ckbfs")
    /\ LET query == req'.query
           g == IF query.format = "raw"
                THEN StartFetch("raw", query.uri, query.network, TRUE)
                ELSE StartFetch("json", query.uri, query.network, query.includeContent)
       IN  /\ fetches' = <<g>>
           /\ Logged([calls |-> 0], g, <<>>, arg.now)
    /\ pc' = "awaiting"
    /\ UNCHANGED <<res, arg>>

\* the resolver's promise resolves within the timeout of the attempt; the
\* attempt's timer stays set
RetryResolverResolves ==
    /\ pc = "awaiting"
    /\ fetches[1].pc = "race"
    /\ \E fileData \in RetryResolverFiles, latency \in ResolverLatencies :
          LET f == fetches[1]
              g == AttemptResolved(f, fileData)
              time == arg.now + latency
          IN  /\ latency < TimeoutMs
              /\ Step(1, g)
              /\ Logged(f, g, <<Event("resolved", f.attempt, time, Fulfilled(fileData))>>, time)
              /\ arg' = [arg EXCEPT !.now = time, !.timers = @ \cup {f.attempt}]
    /\ UNCHANGED <<req, pc, res>>

\* the resolver's promise rejects within the timeout of the attempt
RetryResolverRejects ==
    /\ pc = "awaiting"
    /\ fetches[1].pc = "race"
    /\ \E error \in RetryResolverErrors, latency \in ResolverLatencies :
          LET f == fetches[1]
              g == AttemptFailed(f, error, FALSE)
              time == arg.now + latency
          IN  /\ latency < TimeoutMs
              /\ Step(1, g)
              /\ Logged(f, g, <<Event("rejected", f.attempt, time, Rejected(error))>>, time)
              /\ arg' = [arg EXCEPT !.now = time, !.timers = @ \cup {f.attempt}]
    /\ UNCHANGED <<req, pc, res>>

\* the timer of the attempt fires first: the resolver's call keeps running
RetryTimeoutFires ==
    /\ pc = "awaiting"
    /\ fetches[1].pc = "race"
    /\ LET f == fetches[1]
           g == AttemptFailed(f, TimeoutError, TRUE)
           time == arg.now + TimeoutMs
       IN  /\ Step(1, g)
           /\ Logged(f, g, <<Event("timeout", f.attempt, time, Rejected(TimeoutError))>>, time)
           /\ arg' = [arg EXCEPT !.now = time, !.abandoned = @ \cup {f.attempt}]
    /\ UNCHANGED <<req, pc, res>>

\* the delay before the next attempt elapses
RetryBackoffElapses ==
    /\ pc = "awaiting"
    /\ fetches[1].pc = "backoff"
    /\ LET f == fetches[1]
           g == BackoffElapsed(f)
           time == arg.now + BackoffDelay(f.attempt)
       IN  /\ Step(1, g)
           /\ Logged(f, g, <<>>, time)
           /\ arg' = [arg EXCEPT !.now = time]
    /\ UNCHANGED <<req, pc, res>>

\* a mutant of SettlementAfterRace: the late settlement is taken as the
\* outcome of the fetch
SettlementAfterRace_adopted(f, attempt, outcome) ==
    [f EXCEPT !.pc = "settled",
              !.settle = IF outcome.status = "fulfilled"
                         THEN ResultOf(f, outcome.value)
                         ELSE Rejected(CatchOf(f, outcome.reason))]

\* the race of the attempt has settled: a later settlement of one of its
\* promises changes nothing of the fetch
SettlementAfterRace(f, attempt, outcome) == f

\* an abandoned resolver call completes, with a file or with an error
AbandonedCallCompletes ==
    /\ Len(fetches) = 1
    /\ \E attempt \in arg.abandoned :
       \E outcome \in LateOutcomes :
          LET f == fetches[1]
              g == SettlementAfterRace(f, attempt, outcome)
          IN  /\ fetches' = <<g>>
              /\ Logged(f, g, <<Event("late", attempt, arg.now, outcome)>>, arg.now)
              /\ arg' = [arg EXCEPT !.abandoned = @ \ {attempt}]
    /\ UNCHANGED <<req, pc, res>>

\* the timer of an attempt the resolver settled fires
StaleTimerFires ==
    /\ Len(fetches) = 1
    /\ \E attempt \in arg.timers :
          LET f == fetches[1]
              g == SettlementAfterRace(f, attempt, Rejected(TimeoutError))
          IN  /\ fetches' = <<g>>
              /\ Logged(f, g, <<Event("stale", attempt, arg.now, Rejected(TimeoutError))>>,
                        arg.now)
              /\ arg' = [arg EXCEPT !.timers = @ \ {attempt}]
    /\ UNCHANGED <<req, pc, res>>

NextRetry ==
    \/ RetryBegin
    \/ RetryResolverResolves
    \/ RetryResolverRejects
    \/ RetryTimeoutFires
    \/ RetryBackoffElapses
    \/ AbandonedCallCompletes
    \/ StaleTimerFires
    \/ EndGetFileByURI

SpecRetry == InitRetry /\ [][NextRetry]_vars

\* the events of the log that the fetch's own attempts made, in order
AttemptEvents == SelectSeq(out, LAMBDA e : e.event \in {"call", "resolved", "rejected", "timeout"})

\* C22: if attempt k of a fetch is the first whose resolver call succeeds
\* within the timeout, the fetch returns that attempt's result and the
\* resolver has been invoked exactly k times: the invocations are numbered
\* 1..k in order, each but the first follows the failure or timeout of the
\* one before it, and none follows the success.
C22_FirstSuccessEndsTheFetch ==
    LET ev == AttemptEvents
    IN  \A i \in DOMAIN ev :
            /\ ev[i].event = "call" =>
                  /\ ev[i].attempt = Cardinality({j \in 1..i : ev[j].event = "call"})
                  /\ i > 1 => /\ ev[i - 1].event \in {"rejected", "timeout"}
                              /\ ev[i - 1].attempt = ev[i].attempt - 1
            /\ ev[i].event = "resolved" =>
                  /\ i = Len(ev)
                  /\ ev[i - 1].event = "call" /\ ev[i - 1].attempt = ev[i].attempt
                  /\ ev[i].at - ev[i - 1].at < TimeoutMs
                  /\ fetches[1].pc = "settled"
                  /\ fetches[1].calls = ev[i].attempt
                  /\ fetches[1].settle = ResultOf(fetches[1], ev[i].outcome.value)

\* the third attempt is the first to succeed, after a timeout and an error
C22_Witness ==
    /\ Len(AttemptEvents) = 6
    /\ AttemptEvents[2].event = "timeout"
    /\ AttemptEvents[4].event = "rejected"
    /\ AttemptEvents[6].event = "resolved" /\ AttemptEvents[6].attempt = 3
    /\ fetches[1].calls = 3
    /\ fetches[1].settle.status = "fulfilled"

\* SpecRetry with what the event loop guarantees: the handler runs, a timer
\* that is set fires, and a handler whose await has settled resumes.  The
\* resolver is not required ever to answer.
SpecRetryFair ==
    /\ SpecRetry
    /\ WF_vars(RetryBegin)
    /\ WF_vars(RetryTimeoutFires)
    /\ WF_vars(RetryBackoffElapses)
    /\ WF_vars(EndGetFileByURI)

FetchSettled == Len(fetches) = 1 /\ fetches[1].pc = "settled"

\* C23: every fetch terminates, with a file or with a failure, after at
\* most RetryAttempts attempts, even when the resolver never answers: the
\* resolver is never invoked more than RetryAttempts times, and the fetch
\* eventually settles.
C23_EveryFetchTerminates ==
    /\ [](\A i \in DOMAIN fetches : fetches[i].calls <= RetryAttempts)
    /\ <>FetchSettled

\* the resolver answered none of its calls: the fetch settled after the
\* timeouts of all its attempts, at the time of the last one
C23_Witness ==
    /\ FetchSettled
    /\ AllAttemptsTimedOut(fetches[1])
    /\ fetches[1].calls = RetryAttempts
    /\ [i \in DOMAIN AttemptEvents |-> AttemptEvents[i].event]
           = <<"call", "timeout", "call", "timeout", "call", "timeout">>
    /\ arg.now = RetryAttempts * TimeoutMs + BackoffDelay(1) + BackoffDelay(2)

\* the outcome the fetch owes to its own attempts: that of the last attempt
\* that ended, as the calling function returns or rethrows it
OutcomeOfAttempts(f) ==
    LET last == AttemptEvents[Len(AttemptEvents)]
    IN  IF last.event = "resolved"
        THEN ResultOf(f, last.outcome.value)
        ELSE Rejected(CatchOf(f, last.outcome.reason))

\* the late completions logged so far
LateEvents == SelectSeq(out, LAMBDA e : e.event = "late")

\* C24: a resolver call abandoned by its timeout is not cancelled, and when
\* it completes later, with a file or an error, during a later attempt or
\* after the fetch has finished, its outcome never becomes the outcome of
\* the fetch and causes no second response: a settled fetch has the outcome
\* of an attempt that ended within its own timeout, an unsettled one is not
\* settled by it, and the one response is the one of that outcome.
C24_LateCompletionNeverCounts ==
    Len(fetches) = 1 =>
        LET f == fetches[1]
        IN  /\ Len(res) <= 1
            /\ f.pc = "settled" =>
                  /\ AttemptEvents[Len(AttemptEvents)].event # "call"
                  /\ f.settle = OutcomeOfAttempts(f)
                  /\ AttemptEvents[Len(AttemptEvents)].event = "resolved" =>
                        AttemptEvents[Len(AttemptEvents)].at
                            - AttemptEvents[Len(AttemptEvents) - 1].at < TimeoutMs
            /\ f.pc # "settled" =>
                  /\ f.settle = Pending
                  /\ AttemptEvents[Len(AttemptEvents)].event # "resolved"
            /\ Len(res) = 1 => res[1] = getFileByURI(req.query, OutcomeOfAttempts(f))

\* the call of the first attempt was abandoned and completed with a file
\* while the second attempt was in flight; the fetch then failed, and was
\* answered once, with the failure
C24_Witness ==
    /\ Len(out) >= 4
    /\ out[2].event = "timeout" /\ out[2].attempt = 1
    /\ out[3].event = "call" /\ out[3].attempt = 2
    /\ out[4].event = "late" /\ out[4].attempt = 1 /\ out[4].outcome.status = "fulfilled"
    /\ Len(fetches) = 1
    /\ fetches[1].settle.status = "rejected"
    /\ Len(res) = 1
    /\ res[1].body.success = FALSE

\* every attempt of the fetch failed: the last attempt that ended is the
\* last one allowed, and it did not resolve
AllAttemptsFailed ==
    /\ Len(fetches) = 1
    /\ fetches[1].pc = "settled"
    /\ AttemptEvents[Len(AttemptEvents)].event \in {"rejected", "timeout"}

\* C25: when all RetryAttempts attempts of a fetch failed, the failure
\* withRetry throws is the failure of the last attempt, not that of an
\* earlier one and not an error of its own, with its message unchanged.
\* getRawFileContent rethrows it as it is; getFileContent rethrows it
\* classified by that message, which it keeps as the details.
C25_ExhaustedRetryThrowsLastFailure ==
    AllAttemptsFailed =>
        LET f == fetches[1]
            last == AttemptEvents[Len(AttemptEvents)]
        IN  /\ last.attempt = RetryAttempts
            /\ f.lastError = last.outcome.reason
            /\ f.lastError.message = last.outcome.reason.message
            /\ f.settle = Rejected(CatchOf(f, last.outcome.reason))
            /\ IF f.kind = "json"
               THEN f.settle.reason.details = last.outcome.reason.message
               ELSE f.settle.reason = last.outcome.reason

\* three failures of three kinds: an error, a timeout, another error
C25_Witness ==
    /\ AllAttemptsFailed
    /\ Len(AttemptEvents) = 6
    /\ AttemptEvents[2].outcome = Rejected(PlainError(S_CellNotFound))
    /\ AttemptEvents[4].outcome = Rejected(TimeoutError)
    /\ AttemptEvents[6].outcome = Rejected(PlainError(S_NetworkRequestFailed))
    /\ fetches[1].lastError = PlainError(S_NetworkRequestFailed)

\* C26: between failed attempt n and attempt n+1 (1 <= n < RetryAttempts)
\* the fetch waits RetryDelay * n: the invocation of the resolver for
\* attempt n+1 is that long after the failure of attempt n.  No wait follows
\* the last attempt: its failure settles the fetch in the same step.
C26_BackoffGrowsLinearly ==
    LET ev == AttemptEvents
    IN  /\ \A i \in DOMAIN ev :
              (ev[i].event = "call" /\ i > 1) =>
                  /\ ev[i - 1].attempt \in 1..(RetryAttempts - 1)
                  /\ ev[i].at - ev[i - 1].at = RetryDelay * ev[i - 1].attempt
        /\ \A i \in DOMAIN fetches :
              /\ fetches[i].pc = "backoff" =>
                    /\ fetches[i].attempt < RetryAttempts
                    /\ ev[Len(ev)].event \in {"rejected", "timeout"}
                    /\ ev[Len(ev)].attempt = fetches[i].attempt
              /\ (ev # <<>> /\ ev[Len(ev)].event \in {"rejected", "timeout"}
                     /\ ev[Len(ev)].attempt = RetryAttempts) =>
                    /\ fetches[i].pc = "settled"
                    /\ fetches[i].settle.status = "rejected"
                    /\ arg.now = ev[Len(ev)].at

\* the third attempt begins 2 * RetryDelay after the failure of the second,
\* which began RetryDelay after the failure of the first
C26_Witness ==
    /\ Len(AttemptEvents) >= 5
    /\ AttemptEvents[3].event = "call"
    /\ AttemptEvents[3].at - AttemptEvents[2].at = 1000
    /\ AttemptEvents[5].event = "call"
    /\ AttemptEvents[5].at - AttemptEvents[4].at = 2000

\* SpecBatch with what the event loop guarantees: the middleware and the
\* handler run, a timer that is set fires, and the handler resumes once
\* Promise.allSettled has settled.  The resolver is not required to answer.
SpecBatchFair ==
    /\ SpecBatch
    /\ WF_<<pc, fetches, res>>(RejectBody \/ RejectRawBatch \/ BeginBatchGetFiles)
    /\ WF_<<pc, fetches, res>>(\E i \in DOMAIN fetches : TimeoutFires(i) \/ BackoffElapses(i))
    /\ WF_<<pc, fetches, res>>(EndBatchGetFiles)

AllFetchesSettled ==
    fetches # <<>> /\ \A i \in DOMAIN fetches : fetches[i].pc = "settled"

\* C27: a batch is answered only after every one of its fetches has
\* settled, never while one is pending; it is answered eventually once they
\* have all settled (and they all do); and all its fetches have been
\* started, each with its resolver invoked, when the handler first awaits.
C27_BatchWaitsForAllFetches ==
    /\ [](/\ pc = "awaiting" =>
                /\ Len(fetches) = Len(req.body.uris)
                /\ \A i \in DOMAIN fetches : fetches[i].calls >= 1
          /\ (\E i \in DOMAIN fetches : fetches[i].pc # "settled") => res = <<>>
          /\ BatchAnswered =>
                /\ AllFetchesSettled
                /\ Len(res[1].body.data.results) = Len(req.body.uris))
    /\ (AllFetchesSettled ~> pc = "done")
    /\ <>(pc = "done")

\* three fetches, the last to settle after the timeouts of all its attempts
C27_Witness ==
    /\ BatchAnswered
    /\ Len(fetches) = 3
    /\ fetches[1].settledAt = 3 /\ AllAttemptsTimedOut(fetches[1])
    /\ fetches[2].settle.status = "fulfilled"
    /\ Len(res[1].body.data.results) = 3

(***************************************************************************)
(* C28: one response, either the success payload or an error payload       *)
(***************************************************************************)
\* the complete success payload of a file endpoint: status 200 with the raw
\* bytes and their headers, or with a JSON body that is not an error
IsSuccessPayload(r) ==
    /\ r.status = HttpStatus.OK
    /\ \/ /\ r.type = "raw"
          /\ DOMAIN r.headers = {"ContentType", "ContentLength", "Filename", "Uri", "Network"}
       \/ /\ r.type = "json"
          /\ "error" \notin DOMAIN r.body
          /\ "headers" \notin DOMAIN r

\* an error payload and nothing of a success response: an error status, the
\* error envelope, and none of the headers of the raw format
IsErrorPayload(r) ==
    /\ r.status >= 400
    /\ r.type = "json"
    /\ r.body.success = FALSE
    /\ "error" \in DOMAIN r.body /\ "data" \notin DOMAIN r.body
    /\ "headers" \notin DOMAIN r

\* C28: a request to a file endpoint (health apart) gets at most one
\* response, and that response is either the complete success payload or an
\* error payload carrying no part of a success response.
C28_OneResponseSuccessOrError ==
    req.endpoint # "health" =>
        /\ Len(res) <= 1
        /\ (pc = "done") = (Len(res) = 1)
        /\ \A i \in DOMAIN res : IsSuccessPayload(res[i]) \/ IsErrorPayload(res[i])

(***************************************************************************)
(* C30: the decision and the normalized form of the declared type          *)
(***************************************************************************)
\* the normalized form of a declared type: lower-cased and cut at the first ';'
NormalizedType(contentType) == BeforeFirst(toLowerCase(contentType), ";")

\* C30: shouldTreatAsText decides for a declared type and a filename as it
\* decides for the normalized form of the type and the same filename.
C30_DecisionDependsOnNormalizedType ==
    pc = "classified" =>
        out.isText = shouldTreatAsText(NormalizedType(arg.contentType), arg.filename)

(***************************************************************************)
(* SpecConcurrent: several requests in progress at the same time.  The     *)
(* server runs every handler on one event loop, so between two awaits a    *)
(* handler runs alone and the steps of the requests interleave at their    *)
(* awaits.  req, pc, fetches and res hold one entry per request; arg holds *)
(* the requests as they were received and out, per request and fetch, the  *)
(* answers the resolver gave to the attempts of that fetch.                *)
(***************************************************************************)
\* the number of requests in progress together
NumRequests == 2

ConcurrentResolverFiles == {FileHelloTxt}
ConcurrentResolverErrors == {PlainError(S_CellNotFound)}

\* a JSON fetch, a raw fetch, a query the validation refuses, and a batch
ConcurrentRequests ==
    {[endpoint |-> "ckbfs", query |-> [uri |-> UriCycle[1]]],
     [endpoint |-> "ckbfs", query |-> [uri |-> UriCycle[2], format |-> "raw"]],
     [endpoint |-> "ckbfs", query |-> [uri |-> UriCycle[1], format |-> "xml"]],
     [endpoint |-> "batch", body |-> [uris |-> UriList(2)]]}

\* the requests in progress together: a batch, if any, is the last of them
ConcurrentArrivals ==
    {rs \in [1..NumRequests -> ConcurrentRequests] :
        \A k \in 1..(NumRequests - 1) : rs[k].endpoint # "batch"}

InitConcurrent ==
    /\ req \in ConcurrentArrivals
    /\ arg = req
    /\ pc = [k \in 1..NumRequests |-> "received"]
    /\ fetches = [k \in 1..NumRequests |-> <<>>]
    /\ res = [k \in 1..NumRequests |-> <<>>]
    /\ out = [k \in 1..NumRequests |-> <<>>]

\* the validation middleware and the handler of request r up to its first
\* await or, if it answers before any await, to its response: the request
\* with its validated input, the fetches started, the response sent
Arrival(r) ==
    IF r.endpoint = "batch"
    THEN IF ValidationErrors(r.endpoint, r.body) # <<>>
         THEN [req |-> r, fetches |-> <<>>,
               res |-> <<BodyValidationFailure(r.endpoint, r.body)>>]
         ELSE LET body == ValidatedQuery(r.endpoint, r.body)
                  validated == validateNetwork(body.network)
                  s == [r EXCEPT !.body = body]
              IN  IF body.format = "raw"
                  THEN [req |-> s, fetches |-> <<>>, res |-> <<BatchRawNotSupported>>]
                  ELSE IF ~validated.ok
                  THEN [req |-> s, fetches |-> <<>>, res |-> <<RouteError(validated.error)>>]
                  ELSE [req |-> s,
                        fetches |-> [i \in 1..Len(body.uris) |->
                                        StartFetch("json", body.uris[i], validated.value,
                                                   body.includeContent)],
                        res |-> <<>>]
    ELSE IF ValidationErrors(r.endpoint, r.query) # <<>>
         THEN [req |-> r, fetches |-> <<>>,
               res |-> <<QueryValidationFailure(r.endpoint, r.query)>>]
         ELSE LET query == ValidatedQuery(r.endpoint, r.query)
              IN  [req |-> [r EXCEPT !.query = query],
                   fetches |-> <<IF query.format = "raw"
                                 THEN StartFetch("raw", query.uri, query.network, TRUE)
                                 ELSE StartFetch("json", query.uri, query.network,
                                                 query.includeContent)>>,
                   res |-> <<>>]

\* the handler of request r after its await: the response for the settled
\* fetches fs
Completion(r, fs) ==
    IF r.endpoint = "batch"
    THEN batchGetFiles(r.body, getMultipleFiles(r.body.uris, fs))
    ELSE getFileByURI(r.query, fs[1].settle)

\* a mutant of RecordFailure: lastError is a field of the service, which
\* every call of withRetry in progress reads
RecordFailure_sharedLastError(all, k, i, error, timedOut) ==
    [kk \in DOMAIN all |->
        [ii \in DOMAIN all[kk] |->
            IF kk = k /\ ii = i THEN AttemptFailed(all[kk][ii], error, timedOut)
            ELSE IF all[kk][ii].pc \in {"race", "backoff"}
            THEN [all[kk][ii] EXCEPT !.lastError = error]
            ELSE all[kk][ii]]]

\* lastError, like attempt, is a local of the call of withRetry: the failure
\* of an attempt of fetch i of request k is recorded in that call alone
RecordFailure(all, k, i, error, timedOut) ==
    [all EXCEPT ![k][i] = AttemptFailed(@, error, timedOut)]

RequestArrives(k) ==
    /\ pc[k] = "received"
    /\ LET a == Arrival(req[k])
       IN  /\ req' = [req EXCEPT ![k] = a.req]
           /\ fetches' = [fetches EXCEPT ![k] = a.fetches]
           /\ res' = [res EXCEPT ![k] = a.res]
           /\ out' = [out EXCEPT ![k] = [i \in DOMAIN a.fetches |-> <<>>]]
           /\ pc' = [pc EXCEPT ![k] = IF a.res = <<>> THEN "awaiting" ELSE "done"]
    /\ UNCHANGED arg

ConcurrentResolverResolves(k, i) ==
    /\ pc[k] = "awaiting"
    /\ fetches[k][i].pc = "race"
    /\ \E fileData \in ConcurrentResolverFiles :
          /\ fetches' = [fetches EXCEPT ![k][i] = AttemptResolved(@, fileData)]
          /\ out' = [out EXCEPT ![k][i] = Append(@, Fulfilled(fileData))]
    /\ UNCHANGED <<req, pc, res, arg>>

ConcurrentResolverRejects(k, i) ==
    /\ pc[k] = "awaiting"
    /\ fetches[k][i].pc = "race"
    /\ \E error \in ConcurrentResolverErrors :
          /\ fetches' = RecordFailure(fetches, k, i, error, FALSE)
          /\ out' = [out EXCEPT ![k][i] = Append(@, Rejected(error))]
    /\ UNCHANGED <<req, pc, res, arg>>

\* the resolver has not answered the attempt when its timeout fires
ConcurrentTimeoutFires(k, i) ==
    /\ pc[k] = "awaiting"
    /\ fetches[k][i].pc = "race"
    /\ fetches' = RecordFailure(fetches, k, i, TimeoutError, TRUE)
    /\ out' = [out EXCEPT ![k][i] = Append(@, Pending)]
    /\ UNCHANGED <<req, pc, res, arg>>

ConcurrentBackoffElapses(k, i) ==
    /\ pc[k] = "awaiting"
    /\ fetches[k][i].pc = "backoff"
    /\ fetches' = [fetches EXCEPT ![k][i] = BackoffElapsed(@)]
    /\ UNCHANGED <<req, pc, res, arg, out>>

\* every fetch of request k has settled: its handler resumes and answers
RequestCompletes(k) ==
    /\ pc[k] = "awaiting"
    /\ \A i \in DOMAIN fetches[k] : fetches[k][i].pc = "settled"
    /\ res' = [res EXCEPT ![k] = Append(@, Completion(req[k], fetches[k]))]
    /\ pc' = [pc EXCEPT ![k] = "done"]
    /\ UNCHANGED <<req, fetches, arg, out>>

NextConcurrent ==
    \E k \in 1..NumRequests :
        \/ RequestArrives(k)
        \/ \E i \in DOMAIN fetches[k] :
              \/ ConcurrentResolverResolves(k, i)
              \/ ConcurrentResolverRejects(k, i)
              \/ ConcurrentTimeoutFires(k, i)
              \/ ConcurrentBackoffElapses(k, i)
        \/ RequestCompletes(k)

SpecConcurrent == InitConcurrent /\ [][NextConcurrent]_vars

\* the fetch f run on its own against the answers the resolver gave to its
\* attempts, one after the other (Pending: no answer before the timeout)
RECURSIVE FetchAlone(_, _)
FetchAlone(f, answers) ==
    IF answers = <<>> \/ f.pc = "settled" THEN f
    ELSE LET g == IF f.pc = "backoff" THEN BackoffElapsed(f) ELSE f
             answer == answers[1]
             h == CASE answer.status = "fulfilled" -> AttemptResolved(g, answer.value)
                    [] answer.status = "rejected" -> AttemptFailed(g, answer.reason, FALSE)
                    [] OTHER -> AttemptFailed(g, TimeoutError, TRUE)
         IN  FetchAlone(h, Tail(answers))

\* the response to request r processed alone against the resolver's answers
ResponseAlone(r, answers) ==
    LET a == Arrival(r)
    IN  IF a.res # <<>> THEN a.res[1]
        ELSE Completion(a.req, [i \in DOMAIN a.fetches |->
                                   FetchAlone(a.fetches[i], answers[i])])

\* the entries of request j are what they were
Untouched(j) ==
    /\ pc'[j] = pc[j]
    /\ fetches'[j] = fetches[j]
    /\ res'[j] = res[j]
    /\ out'[j] = out[j]

\* C29: however the steps of the requests in progress interleave, a request
\* gets one response, the one it gets when processed alone against the
\* answers the resolver gave to its own attempts, and a step of one request
\* leaves the state of every other request as it was.
C29_RequestsDoNotInterfere ==
    /\ [](\A k \in 1..NumRequests :
            /\ Len(res[k]) <= 1
            /\ pc[k] = "done" => res[k] = <<ResponseAlone(arg[k], out[k])>>)
    /\ [][\E k \in 1..NumRequests :
            \A j \in (1..NumRequests) \ {k} : Untouched(j)]_<<pc, fetches, res, out>>

\* a batch whose first fetch was given up after three failures and whose
\* second succeeded was answered after a raw fetch, in progress with it,
\* failed on timeouts; the raw fetch was answered first
C29_Witness ==
    /\ pc = [k \in 1..NumRequests |-> "done"]
    /\ req[1].endpoint = "ckbfs" /\ req[1].query.format = "raw"
    /\ req[NumRequests].endpoint = "batch"
    /\ Len(out[1][1]) = RetryAttempts
    /\ \A n \in 1..RetryAttempts : out[1][1][n] = Pending
    /\ res[1][1].status # HttpStatus.OK
    /\ out[NumRequests][1] = [n \in 1..RetryAttempts |-> Rejected(PlainError(S_CellNotFound))]
    /\ fetches[NumRequests][2].settle.status = "fulfilled"
    /\ res[NumRequests][1].status = HttpStatus.OK
    /\ "error" \in DOMAIN res[NumRequests][1].body.data.results[1]
    /\ "error" \notin DOMAIN res[NumRequests][1].body.data.results[2]

=============================================================================
